---- MODULE Spec2Model ----
(***************************************************************************)
(* SManga: the crawl state machine of BaseSpider (parse, the one-shot      *)
(* home-page retry, pagination), the Madara image resolution with its      *)
(* protected payload, and the CustomJsonFeed pipeline that merges the      *)
(* scraped records with the feed file on disk, deduplicates, sorts and     *)
(* saves.  Strings the code inspects (titles, URLs, file names) are        *)
(* sequences of one-character strings.                                     *)
(***************************************************************************)
EXTENDS Integers, Sequences, FiniteSets, TLC

VARIABLES
    disk,             \* the destination directory: file name -> content
    pc,               \* position of the run: idle, configured, config_error,
                      \* constructed, opened, crawling, closed, finished,
                      \* killed, aborted, returned
    file_name,        \* CustomJsonFeed.file_name
    dest_path,        \* CustomJsonFeed.dest_path is set (TRUE) or None (FALSE)
    overwrite,        \* CustomJsonFeed.overwrite
    json_enabled,     \* CustomJsonFeed.json_enabled
    data,             \* CustomJsonFeed.data: [details, chapters]
    load,             \* CustomJsonFeed.load
    scraped_details,  \* BaseSpider.scraped_details
    request,          \* the request the engine has scheduled (at most one)
    item,             \* the item a callback yielded, not yet through the pipeline
    homeRequests,     \* home-page requests issued in this run
    scraped,          \* history: the items yielded in this run, in order
    last,             \* history: what the last callback saw and did
    prev,             \* history: content of the feed path before close_spider
    saved,            \* history: outcome of save_data_to_file in this run
    runs,             \* crawls started so far
    final_file_path,  \* SManga.final_file_path, as spider_closed leaves it
    last_chapters,    \* LastChapterManager.data: the bookmark index
    config,           \* what SManga was given: url, file name, spider name,
                      \* and the exception its validation raised
    browser           \* the browser: trash.json, the data each manager of its
                      \* two lists holds, what the lists show, and the last call

vars == <<disk, pc, file_name, dest_path, overwrite, json_enabled, data, load,
          scraped_details, request, item, homeRequests, scraped, last,
          prev, saved, runs, final_file_path, last_chapters, config, browser>>

callerVars == <<final_file_path, last_chapters, config, browser>>

pipelineVars == <<file_name, dest_path, overwrite, json_enabled, data, load>>
spiderVars == <<scraped_details, request, item, homeRequests, scraped, last>>

-----------------------------------------------------------------------------
(* Bounds                                                                  *)

\* chapter records one crawl may yield (pagination has no limit of its own)
MaxPages == 2

\* crawls in a row against the same destination directory
MaxRuns == 2

\* the longest list of chapters the merge is applied to on its own
MaxTitles == 3

-----------------------------------------------------------------------------
(* Values                                                                  *)

None == <<"None">>

Http == <<"h", "t", "t", "p">>

\* the site, its chapter pages and the series home page
Site == <<"h", "t", "t", "p", ":", "/", "/", "s", "/">>
Url1 == Site \o <<"1">>
Url2 == Site \o <<"2">>
HomeUrl == Site \o <<"h">>
ChapterUrls == {Url1, Url2}

\* what a next-page selector can give: nothing, an empty string, a rooted
\* path, a URL of another scheme, a URL with the scheme in capitals, a
\* relative path that begins with the letters http, a chapter page with or
\* without a trailing blank
NextValues == {None, <<>>, <<"/", "2">>,
               <<"f", "t", "p", ":", "/", "/", "s", "/", "2">>,
               <<"H", "T", "T", "P", ":", "/", "/", "s", "/", "2">>,
               <<"h", "t", "t", "p", "2">>,
               Url1, Url2, Url2 \o <<" ">>}

\* chapter titles: keys 2, 10, 10 (first run of digits only), none
Titles == {<<"c", "2">>, <<"c", "1", "0">>, <<"1", "0", "b", "5">>, <<"e", "x">>}

\* image lists a page can carry
NoImages == <<>>
ImageLists == {<<"a">>, <<"b">>}

\* what image_from_element gives for an img element none of whose listed
\* attributes has a value: None, here among the URLs of the other elements
NoUrl == "None"

\* series names a home page can carry
MangaNames == {<<"A", " ", "b">>}

\* the file name a caller can pass in
KnownFile == <<"a", "-", "b", ".", "j", "s", "o", "n">>

\* the cover a home page shows; description, genre, author and artist are
\* extracted, carried and stored the way the cover is
Cover == <<"c", ".", "j", "p", "g">>
Covers == {None, Cover}

NoDetails == [set |-> FALSE, manganame |-> None, cover |-> None]
MangaDetails(name, cover) == [set |-> TRUE, manganame |-> name, cover |-> cover]
Details(name) == MangaDetails(name, Cover)

Chapter(t, imgs, url) == [title |-> t, images |-> imgs, document_location |-> url]

NoRequest == [url |-> None, callback |-> "none", retry |-> None,
              details_item |-> NoDetails]
NoItem == [has |-> FALSE, details |-> NoDetails,
           chapters |-> Chapter(None, NoImages, None)]
\* the slip of trying the plain source attribute first
src_first == <<"src", "data-lazy-src", "data-src", "srcset", "data-cfsrc">>

\* the attributes image_from_element looks at, in its order
attributes == <<"data-lazy-src", "data-src", "srcset", "data-cfsrc", "src">>

\* an element as image_from_element sees it: whether the selection holds an
\* element, and element.attrib; attrib.get gives None for a missing attribute
Element(attrib) == [present |-> TRUE, attrib |-> attrib]
AttributeNames == {attributes[i] : i \in 1..Len(attributes)}
NoElement == [present |-> FALSE, attrib |-> [a \in AttributeNames |-> None]]

\* an img element whose only attribute is src
ImgWithSrc(url) ==
    Element([a \in AttributeNames |-> IF a = "src" THEN url ELSE None])

NoLast == [callback |-> "none", outcome |-> "none", url |-> None,
           payload |-> "unused", next |-> None, home |-> None,
           direct |-> <<>>, on_page |-> "absent", plain |-> <<>>,
           home_name |-> None, home_cover |-> None,
           password |-> None, salt |-> None, element |-> NoElement]

Absent == [kind |-> "absent", details |-> NoDetails, chapters |-> <<>>]
Truncated == [kind |-> "truncated", details |-> NoDetails, chapters |-> <<>>]
Feed(d, chs) == [kind |-> "feed", details |-> d, chapters |-> chs]

\* a file that cannot be opened for reading, and one whose bytes are not UTF-8
Unreadable == [kind |-> "unreadable", details |-> NoDetails, chapters |-> <<>>]
NotUtf8 == [kind |-> "not_utf8", details |-> NoDetails, chapters |-> <<>>]


-----------------------------------------------------------------------------
(* Strings                                                                 *)

StartsWith(s, prefix) ==
    /\ Len(s) >= Len(prefix)
    /\ SubSeq(s, 1, Len(prefix)) = prefix

RECURSIVE LStrip(_)
LStrip(s) == IF s # <<>> /\ Head(s) = " " THEN LStrip(Tail(s)) ELSE s

RECURSIVE RStrip(_)
RStrip(s) ==
    IF s # <<>> /\ s[Len(s)] = " " THEN RStrip(SubSeq(s, 1, Len(s) - 1)) ELSE s

\* str.strip()
Strip(s) == RStrip(LStrip(s))

\* a reference names its own scheme
HasScheme(ref) == \E i \in 1..Len(ref) : ref[i] = ":"

\* the URL up to and with its last slash
RECURSIVE DirOf(_)
DirOf(url) ==
    IF url = <<>> \/ url[Len(url)] = "/" THEN url
    ELSE DirOf(SubSeq(url, 1, Len(url) - 1))

\* response.follow resolves its url against the response's: a reference with
\* a scheme stands, any other replaces the last segment of the page's path
UrlJoin(base, ref) == IF HasScheme(ref) THEN ref ELSE DirOf(base) \o ref

\* a Python value is truthy: not None and not the empty string
Truthy(s) == s # None /\ s # <<>>

Digits == {"0", "1", "2", "3", "4", "5", "6", "7", "8", "9"}

\* the characters ARABIC-INDIC DIGIT ONE and THREE, each one element of a
\* string, written by their code points
ArabicIndicDigits == {"U+0661", "U+0663"}

\* what \d matches in a str pattern: every Unicode decimal digit
DecimalDigits == Digits \cup ArabicIndicDigits

\* the value int() gives a decimal digit
DigitVal(c) ==
    CASE c = "0" -> 0 [] c = "1" -> 1 [] c = "2" -> 2 [] c = "3" -> 3
      [] c = "4" -> 4 [] c = "5" -> 5 [] c = "6" -> 6 [] c = "7" -> 7
      [] c = "8" -> 8 [] c = "9" -> 9
      [] c = "U+0661" -> 1 [] c = "U+0663" -> 3

\* str.lower() on the letters the names use
LowerChar(c) ==
    CASE c = "A" -> "a" [] c = "B" -> "b" [] c = "J" -> "j" [] c = "S" -> "s"
      [] c = "O" -> "o" [] c = "N" -> "n" [] OTHER -> c

\* the characters re.sub(r'[<>:"/\\|?*]', "_", ...) replaces
Forbidden == {"<", ">", ":", "\"", "/", "\\", "|", "?", "*"}

SanitizeChar(c) ==
    LET dashed == IF c = " " THEN "-" ELSE c
    IN  LowerChar(IF dashed \in Forbidden THEN "_" ELSE dashed)

JsonSuffix == <<".", "j", "s", "o", "n">>

\* CustomJsonFeed.generate_file_name; the details item always carries the
\* manganame key, so the "unknown" default is never taken
GenerateFileName(details) ==
    [i \in 1..Len(details.manganame) |-> SanitizeChar(details.manganame[i])]
        \o JsonSuffix

FileNames == {KnownFile} \cup {GenerateFileName(Details(n)) : n \in MangaNames}

-----------------------------------------------------------------------------
(* clean_and_sort_chapters                                                 *)

\* the sort key: <<0, n>> for a title whose first run of digits reads n,
\* <<1, 0>> (float("inf")) for a title with no digit
Inf == <<1, 0>>

RECURSIVE FirstDigit(_, _)
FirstDigit(title, i) ==
    IF i > Len(title) THEN 0
    ELSE IF title[i] \in DecimalDigits THEN i
    ELSE FirstDigit(title, i + 1)

RECURSIVE ReadInt(_, _, _)
ReadInt(title, i, acc) ==
    IF i > Len(title) \/ title[i] \notin DecimalDigits THEN acc
    ELSE ReadInt(title, i + 1, acc * 10 + DigitVal(title[i]))

\* re.search(r"\d+", title): int(match.group(0)) or float("inf")
extract_chapter_number(chapter) ==
    LET i == FirstDigit(chapter.title, 1)
    IN  IF i = 0 THEN Inf ELSE <<0, ReadInt(chapter.title, i, 0)>>

KeyLess(a, b) == a[1] < b[1] \/ (a[1] = b[1] /\ a[2] < b[2])
KeyLeq(a, b) == ~KeyLess(b, a)

\* the position of the record with this title, 0 if there is none
RECURSIVE IndexOfTitle(_, _, _)
IndexOfTitle(chs, t, i) ==
    IF i > Len(chs) THEN 0
    ELSE IF chs[i].title = t THEN i
    ELSE IndexOfTitle(chs, t, i + 1)

\* {chapter["title"]: chapter for chapter in chapters}.values(): a title keeps
\* the position of its first record and the value of its last
RECURSIVE UniqueFrom(_, _)
UniqueFrom(chs, acc) ==
    IF chs = <<>> THEN acc
    ELSE LET c == Head(chs)
             i == IndexOfTitle(acc, c.title, 1)
         IN  UniqueFrom(Tail(chs),
                        IF i = 0 THEN Append(acc, c) ELSE [acc EXCEPT ![i] = c])

unique_chapters(chapters) == UniqueFrom(chapters, <<>>)

\* sorted(..., key=...) is stable: a record goes after every record whose key
\* is not greater
RECURSIVE InsertByKey(_, _, _)
InsertByKey(sorted, c, i) ==
    IF i > Len(sorted) THEN Append(sorted, c)
    ELSE IF KeyLess(extract_chapter_number(c), extract_chapter_number(sorted[i]))
    THEN SubSeq(sorted, 1, i - 1) \o <<c>> \o SubSeq(sorted, i, Len(sorted))
    ELSE InsertByKey(sorted, c, i + 1)

RECURSIVE SortedFrom(_, _)
SortedFrom(chs, acc) ==
    IF chs = <<>> THEN acc
    ELSE SortedFrom(Tail(chs), InsertByKey(acc, Head(chs), 1))

StableSort(chs) == SortedFrom(chs, <<>>)

\* the slip of returning the deduplicated records without sorting them
clean_without_sorting(chapters) == unique_chapters(chapters)

clean_and_sort_chapters(chapters) == StableSort(unique_chapters(chapters))

-----------------------------------------------------------------------------
(* Madara: image resolution and the protected payload                      *)

\* What a chapter page's #chapter-protector-data can be.  Each kind names the
\* first step of parse_protector_image / decrypt_chapter_data / CryptoAES.decrypt
\* that does not go through.
PayloadKinds ==
    {"absent",            \* no protector element on the page
     "no_password",       \* no wpmangaprotectornonce in it
     "no_chapter_data",   \* no chapter_data in it
     "bad_outer_json",    \* chapter_data is not JSON
     "outer_not_object",  \* chapter_data is JSON but not an object
     "missing_key",       \* the object lacks "s" or "ct"
     "bad_hex_salt",      \* "s" is not hexadecimal
     "bad_base64",        \* "ct" is malformed base64
     "wrong_salt_length", \* "s" is hexadecimal of another length than 8 bytes
     "bad_block_length",  \* the ciphertext is not a multiple of the block size
     "bad_padding",       \* unpad rejects the decrypted block
     "bad_utf8",          \* the plaintext is not UTF-8
     "empty_plaintext",   \* the plaintext is the empty string
     "plain_not_json",    \* the plaintext is not JSON (first json.loads)
     "plain_not_string",  \* the plaintext is JSON but not a string (second json.loads)
     "inner_not_json",    \* the decoded string is not JSON (second json.loads)
     "ok"}                \* decrypts to a JSON string of a JSON list of URLs

\* exception classes and the subclass relation the except clause goes by
Subclasses(cls) ==
    CASE cls = "ValueError" ->
            {"ValueError", "JSONDecodeError", "binascii.Error", "UnicodeDecodeError"}
      [] OTHER -> {cls}

\* except (json.JSONDecodeError, KeyError, ValueError)
DecryptCatches == Subclasses("JSONDecodeError") \cup Subclasses("KeyError")
                      \cup Subclasses("ValueError")

\* the outcome of a call that returns text, and of one that returns images
Raise(exc) == [raised |-> exc, value |-> "none"]
Return(v) == [raised |-> "none", value |-> v]
RaiseFromImages(exc) == [raised |-> exc, value |-> NoImages]

\* CryptoAES.decrypt never checks that the salt it slices out is the 8 bytes
\* the sender used: with a salt of another length the key and the ciphertext
\* are both off, and any of these can follow
WrongSaltResults ==
    {Raise("ValueError"), Raise("UnicodeDecodeError"), Return("garbage")}

\* the body of decrypt_chapter_data's try block: the exception it raises or the
\* text it returns
DecryptBody(kind) ==
    CASE kind = "bad_outer_json" -> {Raise("JSONDecodeError")}
      [] kind = "outer_not_object" -> {Raise("TypeError")}
      [] kind = "missing_key" -> {Raise("KeyError")}
      [] kind = "bad_hex_salt" -> {Raise("ValueError")}
      [] kind = "bad_base64" -> {Raise("binascii.Error")}
      [] kind = "wrong_salt_length" -> WrongSaltResults
      [] kind = "bad_block_length" -> {Raise("ValueError")}
      [] kind = "bad_padding" -> {Raise("ValueError")}
      [] kind = "bad_utf8" -> {Raise("UnicodeDecodeError")}
      [] kind = "empty_plaintext" -> {Return("empty")}
      [] kind = "plain_not_json" -> {Return("garbage")}
      [] kind = "plain_not_string" -> {Return("json_list")}
      [] kind = "inner_not_json" -> {Return("json_string_of_garbage")}
      [] OTHER -> {Return("json_string_of_list")}

\* the except clause: a caught exception becomes None
DecryptCaught(r) ==
    IF r.raised \in DecryptCatches THEN Return("None") ELSE r

decrypt_chapter_data(kind) == {DecryptCaught(r) : r \in DecryptBody(kind)}

\* json.loads(json.loads(decrypted_text))
DoubleJsonLoads(text, plain) ==
    CASE text = "garbage" -> RaiseFromImages("JSONDecodeError")
      [] text = "json_list" -> RaiseFromImages("TypeError")
      [] text = "json_string_of_garbage" -> RaiseFromImages("JSONDecodeError")
      [] OTHER -> Return(plain)

\* parse_protector_image: the image lists it can return or the exception that
\* leaves it; plain is the list the payload encrypts
parse_protector_image(kind, plain) ==
    IF kind = "absent" THEN {Return(NoImages)}
    ELSE IF kind \in {"no_password", "no_chapter_data"} THEN {Return(NoImages)}
    ELSE {IF r.raised # "none" THEN RaiseFromImages(r.raised)
          ELSE IF r.value \in {"None", "empty"} THEN Return(NoImages)
          ELSE DoubleJsonLoads(r.value, plain) :
             r \in decrypt_chapter_data(kind)}

\* value.split(" ")[0]: what stands before the first space
FirstOfSplit(value) ==
    LET spaces == {k \in 1..Len(value) : value[k] = " "}
    IN  IF spaces = {} THEN value
        ELSE SubSeq(value, 1, (CHOOSE k \in spaces : \A m \in spaces : k <= m) - 1)

RECURSIVE image_from_attrib(_, _, _)
image_from_attrib(attrib, order, i) ==
    IF i > Len(order) THEN None
    ELSE LET value == attrib[order[i]]
         IN  IF Truthy(value)
             THEN IF order[i] = "srcset" THEN FirstOfSplit(value) ELSE value
             ELSE image_from_attrib(attrib, order, i + 1)

\* BaseSpider.image_from_element
image_from_element(element) ==
    IF ~element.present THEN None
    ELSE image_from_attrib(element.attrib, attributes, 1)

\* Madara.extract_cover_from_home on the elements the cover selector matches
extract_cover_from_home(element) == image_from_element(element)

\* get_images_from_page on the results image_from_element gives for the img
\* elements of the page, in order: each is stripped, and None has no strip
get_images_from_page(direct) ==
    IF \E i \in 1..Len(direct) : direct[i] = NoUrl
    THEN RaiseFromImages("AttributeError")
    ELSE Return(direct)

\* parse_chapter_image: the direct images if there are any, else the payload
parse_chapter_image(direct, kind, plain) ==
    LET images == get_images_from_page(direct)
    IN  IF images.raised # "none" \/ images.value # NoImages THEN {images}
        ELSE parse_protector_image(kind, plain)

-----------------------------------------------------------------------------
(* The protected payload, byte by byte                                     *)

\* the passwords, salts and URL lists a site may protect a chapter with; the
\* first password is the empty string, the last one the letter e-acute
Passwords == {<<>>, <<"p">>, <<"q">>, <<"U+00E9">>}
Salts == {<<"0", "0", "0", "0", "0", "0", "0", "0">>,
          <<"1", "2", "3", "4", "5", "6", "7", "8">>}
UrlLists == {<<>>, <<"a">>, <<"a", "b">>, <<"b", "a">>}

\* json.dumps of a list of URLs, a URL being one character of the text
RECURSIVE JsonDumpsItems(_)
JsonDumpsItems(urls) ==
    IF urls = <<>> THEN <<>>
    ELSE <<"\"", Head(urls), "\"">>
             \o (IF Tail(urls) = <<>> THEN <<>>
                 ELSE <<",">> \o JsonDumpsItems(Tail(urls)))

JsonDumpsList(urls) == <<"[">> \o JsonDumpsItems(urls) \o <<"]">>

\* json.dumps of a string: quotes and backslashes are escaped
RECURSIVE JsonEscape(_)
JsonEscape(text) ==
    IF text = <<>> THEN <<>>
    ELSE (IF Head(text) \in {"\"", "\\"} THEN <<"\\", Head(text)>>
          ELSE <<Head(text)>>) \o JsonEscape(Tail(text))

JsonDumpsString(text) == <<"\"">> \o JsonEscape(text) \o <<"\"">>

\* the inside of a JSON string literal read back, or Bad
Bad == <<"bad">>
RECURSIVE JsonUnescape(_)
JsonUnescape(text) ==
    IF text = <<>> THEN <<>>
    ELSE IF Head(text) = "\""  THEN Bad
    ELSE IF Head(text) = "\\"
         THEN IF Len(text) < 2 \/ text[2] \notin {"\"", "\\", "/"} THEN Bad
              ELSE LET rest == JsonUnescape(SubSeq(text, 3, Len(text)))
                   IN  IF rest = Bad THEN Bad ELSE <<text[2]>> \o rest
    ELSE LET rest == JsonUnescape(Tail(text))
         IN  IF rest = Bad THEN Bad ELSE <<Head(text)>> \o rest

\* the items of a JSON array of strings read back, or Bad
RECURSIVE JsonLoadsItems(_)
JsonLoadsItems(text) ==
    IF Len(text) < 3 \/ text[1] # "\"" \/ text[3] # "\""
           \/ text[2] \in {"\"", "\\", ",", "[", "]"}
    THEN Bad
    ELSE IF Len(text) = 3 THEN <<text[2]>>
    ELSE IF text[4] # "," THEN Bad
    ELSE LET rest == JsonLoadsItems(SubSeq(text, 5, Len(text)))
         IN  IF rest = Bad THEN Bad ELSE <<text[2]>> \o rest

\* json.loads of a text: a string, a list of strings, or JSONDecodeError
JsonLoads(text) ==
    IF Len(text) >= 2 /\ Head(text) = "\"" /\ text[Len(text)] = "\""
    THEN LET inner == JsonUnescape(SubSeq(text, 2, Len(text) - 1))
         IN  IF inner = Bad THEN Raise("JSONDecodeError")
             ELSE Return([type |-> "str", v |-> inner])
    ELSE IF Len(text) >= 2 /\ Head(text) = "[" /\ text[Len(text)] = "]"
    THEN LET items == IF Len(text) = 2 THEN <<>>
                      ELSE JsonLoadsItems(SubSeq(text, 2, Len(text) - 1))
         IN  IF items = Bad THEN Raise("JSONDecodeError")
             ELSE Return([type |-> "list", v |-> items])
    ELSE Raise("JSONDecodeError")

\* str.encode("utf-8"): one byte for an ASCII character, two for e-acute
Utf8Char(c) == IF c = "U+00E9" THEN <<"0xC3", "0xA9">> ELSE <<c>>

RECURSIVE Utf8Encode(_)
Utf8Encode(text) ==
    IF text = <<>> THEN <<>> ELSE Utf8Char(Head(text)) \o Utf8Encode(Tail(text))

\* hashlib.md5(data).digest(): sixteen bytes that stand for the digest of the
\* data and for nothing else (MD5 is taken to be collision-free)
DigestSize == 16
md5(string) == [i \in 1..DigestSize |-> [md5 |-> string, at |-> i]]

\* the slip of hashing the password and the salt alone in every iteration
RECURSIVE digest_loop_unchained(_, _, _, _, _, _)
digest_loop_unchained(d, d_i, password, salt, length, iterations) ==
    IF Len(d) < length
    THEN LET next_d_i == md5(Utf8Encode(password) \o salt)
         IN  digest_loop_unchained(d \o next_d_i, next_d_i, password, salt,
                                   length, iterations + 1)
    ELSE [d |-> d, iterations |-> iterations]

\* the while loop of _generate_key_and_iv, with the number of its iterations
RECURSIVE digest_loop(_, _, _, _, _, _)
digest_loop(d, d_i, password, salt, length, iterations) ==
    IF Len(d) < length
    THEN LET next_d_i == md5(d_i \o Utf8Encode(password) \o salt)
         IN  digest_loop(d \o next_d_i, next_d_i, password, salt, length,
                         iterations + 1)
    ELSE [d |-> d, iterations |-> iterations]

\* CryptoAES._generate_key_and_iv
generate_key_and_iv_of(password, salt, key_length, iv_length) ==
    LET d == digest_loop(<<>>, <<>>, password, salt, key_length + iv_length, 0).d
    IN  [key |-> SubSeq(d, 1, key_length),
         iv |-> SubSeq(d, key_length + 1, key_length + iv_length)]

\* the slip of deriving the key from the password alone
generate_key_without_salt(password, salt) ==
    generate_key_and_iv_of(password, <<>>, 32, 16)

\* the call of _generate_key_and_iv in CryptoAES.decrypt
generate_key_and_iv(password, salt) ==
    generate_key_and_iv_of(password, salt, 32, 16)

\* PKCS#7 padding: at least one byte is added, unpad takes it off again
Pad(text) == Append(text, "pad")

\* AES-CBC under a key: a ciphertext byte gives its plaintext byte back under
\* the key and IV it was made with, and garbage under any other
AesEncrypt(key, text) == [i \in 1..Len(text) |-> [key |-> key, byte |-> text[i]]]
AesDecrypt(key, ciphertext) ==
    [i \in 1..Len(ciphertext) |->
        IF ciphertext[i].key = key THEN ciphertext[i].byte ELSE "garbage"]

\* what the site puts on the page for a list of URLs: the password marker and
\* the chapter_data object with the base64 ciphertext "ct" and the hex salt "s"
\* of the doubly JSON-encoded list
ProtectorData(password, salt, urls) ==
    [password |-> password,
     chapter_data |->
        [ct |-> [base64 |-> AesEncrypt(generate_key_and_iv_of(password, salt, 32, 16),
                                Pad(JsonDumpsString(JsonDumpsList(urls))))],
         s |-> [hex |-> salt]]]

\* CryptoAES.decrypt on the bytes the base64 text stands for: bytes 9 to 16
\* are the salt, the rest is the ciphertext
CryptoAES_decrypt(ct_bytes, password) ==
    LET salt == SubSeq(ct_bytes, 9, 16)
        ciphertext == SubSeq(ct_bytes, 17, Len(ct_bytes))
        decrypted == AesDecrypt(generate_key_and_iv(password, salt), ciphertext)
    IN  IF decrypted = <<>> \/ decrypted[Len(decrypted)] # "pad"
             \/ \E i \in 1..Len(decrypted) : decrypted[i] = "garbage"
        THEN Raise("ValueError")
        ELSE Return(SubSeq(decrypted, 1, Len(decrypted) - 1))

\* decrypt_chapter_data on the parsed chapter_data: "Salted__", the salt and
\* the ciphertext are joined, encoded and handed to CryptoAES.decrypt, which
\* decodes them again
decrypt_chapter_data_str(chapter_data, password) ==
    LET salted == <<"S", "a", "l", "t", "e", "d", "_", "_">>
        salt == chapter_data.s.hex
        unsalted_ciphertext == chapter_data.ct.base64
        ciphertext == [base64 |-> salted \o salt \o unsalted_ciphertext]
        text == CryptoAES_decrypt(ciphertext.base64, password)
    IN  IF text.raised \in DecryptCatches THEN Return(None) ELSE text

\* parse_protector_image on a page that carries the protector element
parse_protector_data(protector_data) ==
    LET password == protector_data.password
        decrypted == decrypt_chapter_data_str(protector_data.chapter_data, password)
        string == JsonLoads(decrypted.value)
        list == JsonLoads(string.value.v)
    IN  IF ~Truthy(password) THEN Return(NoImages)
        ELSE IF decrypted.raised # "none" THEN RaiseFromImages(decrypted.raised)
        ELSE IF ~Truthy(decrypted.value) THEN Return(NoImages)
        ELSE IF string.raised # "none" THEN RaiseFromImages(string.raised)
        ELSE IF string.value.type # "str" THEN RaiseFromImages("TypeError")
        ELSE IF list.raised # "none" THEN RaiseFromImages(list.raised)
        ELSE Return(list.value.v)

-----------------------------------------------------------------------------
(* The pages a fetch can return                                            *)

\* a chapter page: the fields the extractor queries give.  The payload is
\* looked at only when there is no direct image, and the list it encrypts
\* only when it decodes.
ChapterPages ==
    {[title |-> t, direct |-> d, payload |-> k, plain |-> pl, home |-> h, next |-> n] :
        t \in Titles, d \in ImageLists \cup {NoImages, <<NoUrl>>, <<"a", NoUrl>>},
        k \in PayloadKinds,
        pl \in ImageLists, h \in {None, HomeUrl}, n \in NextValues}

RelevantPages ==
    {p \in ChapterPages :
        /\ p.direct # NoImages => p.payload = "absent"
        /\ p.payload # "ok" => p.plain = <<"a">>}

\* the pages the merge is exercised with: every title, with or without
\* images, the first page with or without a home link, a next page or none
FeedPages ==
    {p \in RelevantPages :
        /\ p.direct \in {<<"a">>, NoImages}
        /\ p.payload = "absent"
        /\ p.next \in {None, Url2}}

\* the pages the crawl is exercised with: two titles, with a direct image or
\* with every kind of payload, every next-page value
CrawlPages ==
    {p \in RelevantPages :
        /\ p.title \in {<<"c", "2">>, <<"e", "x">>}
        /\ p.direct \in {<<"a">>, NoImages}
        /\ p.plain = <<"a">>}

\* the name a home page gives (an extractor may also find none)
HomePages == MangaNames \cup {None}

-----------------------------------------------------------------------------
(* CustomJsonFeed                                                          *)

\* the slip of loading the file whatever the overwrite flag says
load_data_ignoring_overwrite ==
    IF Truthy(file_name) /\ dest_path
    THEN IF disk[file_name].kind = "feed" THEN disk[file_name] ELSE Absent
    ELSE Absent

\* load_data: the parsed file, or None (modelled as Absent) when overwrite is
\* set, a name or path is missing, the file does not exist or is not JSON
load_data ==
    IF ~overwrite /\ Truthy(file_name) /\ dest_path
    THEN IF disk[file_name].kind = "feed" THEN disk[file_name] ELSE Absent
    ELSE Absent

\* load_data lets an exception out: it catches json.JSONDecodeError and
\* IOError, and the UnicodeDecodeError that reading bytes that are not UTF-8
\* raises is neither
load_data_raises ==
    /\ ~overwrite /\ Truthy(file_name) /\ dest_path
    /\ disk[file_name].kind = "not_utf8"

\* __init__ through from_crawler, and the spider's construction
from_crawler(fn, ow, feeds) ==
    /\ runs' = runs + 1
    /\ pc' = "constructed"
    /\ file_name' = IF feeds THEN fn ELSE None
    /\ dest_path' = feeds
    /\ overwrite' = (feeds /\ ow)
    /\ json_enabled' = feeds
    /\ data' = [details |-> NoDetails, chapters |-> <<>>]
    /\ load' = FALSE
    /\ scraped_details' = TRUE
    /\ request' = NoRequest
    /\ item' = NoItem
    /\ homeRequests' = 0
    /\ scraped' = <<>>
    /\ last' = NoLast
    /\ prev' = Absent
    /\ saved' = "none"
    /\ final_file_path' = None
    /\ UNCHANGED <<disk, last_chapters, browser>>

\* a crawl started with the pipeline's settings given directly
NewRun(fn, ow, feeds) ==
    /\ pc \in {"idle", "finished", "killed", "aborted", "returned"}
    /\ from_crawler(fn, ow, feeds)
    /\ UNCHANGED config

\* open_spider; an exception out of it ends the crawl before its first request
open_spider ==
    /\ pc = "constructed"
    /\ IF load_data_raises
       THEN /\ pc' = "aborted"
            /\ UNCHANGED <<load, data>>
       ELSE /\ pc' = "opened"
            /\ LET loaded == load_data
               IN  /\ load' = (loaded.kind = "feed")
                   /\ data' = IF loaded.kind = "feed"
                              THEN [details |-> loaded.details,
                                    chapters |-> data.chapters \o loaded.chapters]
                              ELSE data
    /\ UNCHANGED <<disk, file_name, dest_path, overwrite, json_enabled, spiderVars,
                   prev, saved, runs, callerVars>>

start_requests(url) ==
    /\ pc = "opened"
    /\ pc' = "crawling"
    /\ request' = [url |-> url, callback |-> "parse", retry |-> None,
                   details_item |-> NoDetails]
    /\ UNCHANGED <<disk, pipelineVars, scraped_details, item, homeRequests, scraped,
                   last, prev, saved, runs, callerVars>>

\* the slip of putting the new record in front of the buffer
chapters_with_prepended(chapters, chapter) == <<chapter>> \o chapters

\* self.data["chapters"].append(item_dict["chapters"])
chapters_with_appended(chapters, chapter) == Append(chapters, chapter)

\* the slip of naming the file at the first item, with or without details
file_name_after_any(details) ==
    IF Truthy(file_name) THEN file_name
    ELSE IF details.set THEN GenerateFileName(details)
    ELSE KnownFile

\* self.file_name once process_item has seen an item with these details
file_name_after(details) ==
    IF details.set /\ ~Truthy(file_name) THEN GenerateFileName(details)
    ELSE file_name

process_item ==
    /\ pc = "crawling"
    /\ item.has
    /\ item' = NoItem
    /\ last' = NoLast
    /\ IF ~json_enabled
       THEN UNCHANGED <<file_name, data>>
       ELSE IF item.details.set /\ ~Truthy(file_name) /\ item.details.manganame = None
            \* generate_file_name raises AttributeError on a None name: the
            \* details are stored, the chapter is not appended
       THEN /\ data' = [data EXCEPT !.details = item.details]
            /\ UNCHANGED file_name
       ELSE /\ data' = [details |-> IF item.details.set THEN item.details
                                    ELSE data.details,
                        chapters |-> chapters_with_appended(data.chapters,
                                                            item.chapters)]
            /\ file_name' = file_name_after(item.details)
    /\ UNCHANGED <<disk, pc, dest_path, overwrite, json_enabled, load,
                   scraped_details, request, homeRequests, scraped, prev, saved, runs, callerVars>>

\* what open(file_path, "w") followed by json.dump can do to the file: write
\* it whole; fail to open it (IOError, file untouched); fail after the open
\* has truncated it (IOError, caught); or the process dies in between
SaveOutcomes == {"written", "open_failed", "write_failed", "killed"}

save_data_to_file(old, new, outcome) ==
    CASE outcome = "written" -> new
      [] outcome = "open_failed" -> old
      [] OTHER -> Truncated

\* the slip of never loading the file at crawl end
MergedWithoutLateLoad ==
    [details |-> data.details, chapters |-> clean_and_sort_chapters(data.chapters)]

\* the slip of loading the file at crawl end whether or not it was loaded before
MergedLoadingAgain ==
    LET loaded == IF ~overwrite THEN load_data ELSE Absent
        chapters == IF loaded.kind = "feed"
                    THEN data.chapters \o loaded.chapters
                    ELSE data.chapters
        details == IF loaded.kind = "feed" /\ ~data.details.set
                   THEN loaded.details
                   ELSE data.details
    IN  [details |-> details, chapters |-> clean_and_sort_chapters(chapters)]

\* the merge buffer close_spider ends with: a feed not loaded at the start is
\* loaded now and appended after the scraped records; then dedup and sort
MergedAtClose ==
    LET loaded == IF ~overwrite /\ ~load THEN load_data ELSE Absent
        chapters == IF loaded.kind = "feed"
                    THEN data.chapters \o loaded.chapters
                    ELSE data.chapters
        details == IF loaded.kind = "feed" /\ ~data.details.set
                   THEN loaded.details
                   ELSE data.details
    IN  [details |-> details, chapters |-> clean_and_sort_chapters(chapters)]

\* close_spider, called once the engine has nothing left to fetch or process
close_spider(outcome) ==
    /\ pc = "crawling"
    /\ request = NoRequest
    /\ ~item.has
    /\ IF Truthy(file_name) /\ dest_path /\ ~load /\ load_data_raises
       THEN \* the late load raises: neither the sort nor the save is reached
            /\ outcome = "written"
            /\ pc' = "closed"
            /\ saved' = "load_raised"
            /\ UNCHANGED <<data, load, prev, disk>>
       ELSE IF Truthy(file_name) /\ dest_path
       THEN /\ data' = MergedAtClose
            /\ load' = (load \/ (~overwrite /\ load_data.kind = "feed"))
            /\ prev' = disk[file_name]
            /\ saved' = outcome
            /\ disk' = [disk EXCEPT ![file_name] =
                           save_data_to_file(@, Feed(data'.details, data'.chapters),
                                             outcome)]
            /\ pc' = IF outcome = "killed" THEN "killed" ELSE "closed"
       ELSE /\ outcome = "written"
            /\ pc' = "closed"
            /\ UNCHANGED <<data, load, prev, saved, disk>>
    /\ UNCHANGED <<file_name, dest_path, overwrite, json_enabled, spiderVars, runs, callerVars>>

\* the spider_closed signal handler
spider_closed ==
    /\ pc = "closed"
    /\ pc' = "finished"
    /\ final_file_path' = IF json_enabled /\ file_name # None /\ dest_path
                          THEN file_name
                          ELSE final_file_path
    /\ UNCHANGED <<disk, pipelineVars, spiderVars, prev, saved, runs, last_chapters,
                   config, browser>>

-----------------------------------------------------------------------------
(* BaseSpider                                                              *)

\* the slip of asking for the current page again when it names no next one
FollowNextOrSamePage(next) ==
    [url |-> IF Truthy(next) /\ StartsWith(next, Http)
             THEN UrlJoin(request.url, Strip(next))
             ELSE request.url,
     callback |-> "parse", retry |-> None, details_item |-> NoDetails]

\* the request BaseSpider.parse yields for the next page, if it yields one
\* the slip of handing the meta of the response on to the next request
FollowNextWithMeta(next) ==
    IF Truthy(next) /\ StartsWith(next, Http)
    THEN [url |-> UrlJoin(request.url, Strip(next)), callback |-> "parse",
          retry |-> None, details_item |-> request.details_item]
    ELSE NoRequest

FollowNext(next) ==
    IF Truthy(next) /\ StartsWith(next, Http)
    THEN [url |-> UrlJoin(request.url, Strip(next)), callback |-> "parse",
          retry |-> None, details_item |-> NoDetails]
    ELSE NoRequest

retry_scraping_with_home_url(url, home_url) ==
    [url |-> home_url, callback |-> "get_details_and_retry", retry |-> url,
     details_item |-> NoDetails]

create_chapter_item(page, url, images) == Chapter(page.title, images, url)

create_smanga_item(page, url, details_item, images) ==
    [has |-> TRUE, details |-> details_item,
     chapters |-> create_chapter_item(page, url, images)]

\* the slip of never consulting the flag
TakesDetourWheneverLinked(page) == Truthy(page.home)

\* the first response takes the home-page detour when the page names one
TakesDetour(page) == scraped_details /\ Truthy(page.home)

\* BaseSpider.parse on the response to the scheduled request
parse(page) ==
    /\ pc = "crawling"
    /\ request.callback = "parse"
    /\ ~item.has
    /\ Len(scraped) < MaxPages
    /\ scraped_details' = FALSE
    /\ IF TakesDetour(page)
       THEN /\ request' = retry_scraping_with_home_url(request.url, page.home)
            /\ homeRequests' = homeRequests + 1
            /\ last' = [NoLast EXCEPT !.callback = "parse", !.outcome = "detour",
                                      !.url = request.url, !.home = page.home]
            /\ UNCHANGED <<item, scraped>>
       ELSE \E r \in parse_chapter_image(page.direct, page.payload, page.plain) :
              LET consulted == IF page.direct = NoImages THEN page.payload
                               ELSE "unused"
              IN  IF r.raised # "none"
                  THEN \* the callback dies before its first yield
                       /\ request' = NoRequest
                       /\ last' = [NoLast EXCEPT
                                   !.callback = "parse", !.outcome = "raised",
                                   !.url = request.url, !.payload = consulted,
                                   !.next = page.next, !.home = page.home,
                                   !.direct = page.direct, !.on_page = page.payload,
                                   !.plain = page.plain]
                       /\ UNCHANGED <<item, scraped, homeRequests>>
                  ELSE /\ item' = create_smanga_item(page, request.url,
                                                     request.details_item, r.value)
                       /\ scraped' = Append(scraped, item')
                       /\ request' = FollowNext(page.next)
                       /\ last' = [NoLast EXCEPT
                                   !.callback = "parse", !.outcome = "item",
                                   !.url = request.url, !.payload = consulted,
                                   !.next = page.next, !.home = page.home,
                                   !.direct = page.direct, !.on_page = page.payload,
                                   !.plain = page.plain]
                       /\ UNCHANGED homeRequests
    /\ UNCHANGED <<disk, pc, pipelineVars, prev, saved, runs, callerVars>>

\* parse on a chapter page of the pagination without img elements, whose
\* protector element carries the given list of URLs under the given password
\* and salt
parse_protected(password, salt, urls, next) ==
    /\ pc = "crawling"
    /\ request.callback = "parse"
    /\ ~item.has
    /\ ~scraped_details
    /\ Len(scraped) < MaxPages
    /\ LET r == parse_protector_data(ProtectorData(password, salt, urls))
           page == [title |-> <<"c", "2">>]
           seen == [NoLast EXCEPT
                    !.callback = "parse", !.url = request.url, !.payload = "ok",
                    !.next = next, !.on_page = "ok", !.plain = urls,
                    !.password = password, !.salt = salt]
       IN  IF r.raised # "none"
           THEN /\ request' = NoRequest
                /\ last' = [seen EXCEPT !.outcome = "raised"]
                /\ UNCHANGED <<item, scraped>>
           ELSE /\ item' = create_smanga_item(page, request.url,
                                              request.details_item, r.value)
                /\ scraped' = Append(scraped, item')
                /\ request' = FollowNext(next)
                /\ last' = [seen EXCEPT !.outcome = "item"]
    /\ UNCHANGED <<disk, pc, pipelineVars, scraped_details, homeRequests, prev,
                   saved, runs, callerVars>>

\* BaseSpider.get_details_and_retry on the home page's response
details_and_retry(name, cover, element) ==
    /\ pc = "crawling"
    /\ request.callback = "get_details_and_retry"
    /\ ~item.has
    /\ request' = IF Truthy(request.retry)
                  THEN [url |-> request.retry, callback |-> "parse", retry |-> None,
                        details_item |-> MangaDetails(name, cover)]
                  ELSE NoRequest
    /\ last' = [NoLast EXCEPT !.callback = "get_details_and_retry",
                              !.outcome = "retry", !.url = request.url,
                              !.home_name = name, !.home_cover = cover,
                              !.element = element]
    /\ UNCHANGED <<disk, pc, pipelineVars, scraped_details, item, homeRequests,
                   scraped, prev, saved, runs, callerVars>>

\* the home page gives the name and, as its cover, an img with that src
get_details_and_retry(name, cover) ==
    details_and_retry(name, cover,
                      IF cover = None THEN NoElement ELSE ImgWithSrc(cover))

\* the home page gives the name, and the cover selector matches the element
get_details_of_cover_element(name, element) ==
    details_and_retry(name, extract_cover_from_home(element), element)

\* the fetch of the scheduled request fails: no request carries an errback, so
\* the engine logs the failure and no callback runs
fetch_fails ==
    /\ pc = "crawling"
    /\ request # NoRequest
    /\ ~item.has
    /\ request' = NoRequest
    /\ last' = [NoLast EXCEPT !.callback = request.callback,
                              !.outcome = "fetch_failed", !.url = request.url]
    /\ UNCHANGED <<disk, pc, pipelineVars, scraped_details, item, homeRequests,
                   scraped, prev, saved, runs, callerVars>>

\* the engine is told to stop (a shutdown signal, a close-spider timeout)
\* while a fetch is in flight: the request is dropped, and the spider is then
\* closed as after any crawl, close_spider being called whatever the reason
engine_stopped ==
    /\ pc = "crawling"
    /\ request # NoRequest
    /\ ~item.has
    /\ request' = NoRequest
    /\ last' = [NoLast EXCEPT !.callback = request.callback,
                              !.outcome = "abandoned", !.url = request.url]
    /\ UNCHANGED <<disk, pc, pipelineVars, scraped_details, item, homeRequests,
                   scraped, prev, saved, runs, callerVars>>

\* the process is killed during the crawl: no handler runs any more
process_killed ==
    /\ pc = "crawling"
    /\ pc' = "killed"
    /\ UNCHANGED <<disk, pipelineVars, spiderVars, prev, saved, runs, callerVars>>

-----------------------------------------------------------------------------
(* SManga and the bookmark index                                           *)

\* the name of the spider, which the details carry as their source
SpiderName == <<"m", "a", "d", "a", "r", "a">>

\* LastChapter
LastChapter(site, name, last_chapter, fname) ==
    [site |-> site, name |-> name, last_chapter |-> last_chapter, file_name |-> fname]

\* LastChapter.__eq__ against a stored entry: same site and same name
SameSeries(entry, other) == entry.site = other.site /\ entry.name = other.name

RECURSIVE IndexOfSeries(_, _, _)
IndexOfSeries(entries, entry, i) ==
    IF i > Len(entries) THEN 0
    ELSE IF SameSeries(entry, entries[i]) THEN i
    ELSE IndexOfSeries(entries, entry, i + 1)

\* the slip of appending without looking for the series
add_entry_unconditionally(entries, entry) == Append(entries, entry)

\* BaseManager.add_or_update_entry: the first entry of the same series is
\* replaced, or the entry is appended
add_or_update_entry(entries, entry) ==
    LET i == IndexOfSeries(entries, entry, 1)
    IN  IF i = 0 THEN Append(entries, entry) ELSE [entries EXCEPT ![i] = entry]

\* the browser before it is started: no manager holds an entry
NoPair == [main |-> <<>>, trash |-> <<>>]
NoBrowser ==
    [trash_file |-> <<>>, list |-> NoPair, bin |-> NoPair,
     manga_list |-> <<>>, trash_list |-> <<>>,
     op |-> "none", arg |-> None, before |-> NoPair, was |-> "none", gone |-> {}]

\* SManga before its construction
NoConfig ==
    [url |-> None, file_name |-> None, overwrite |-> FALSE, asked |-> None,
     spider_name |-> None, raised |-> "none"]

\* SUPPORTED_FORMATS
SUPPORTED_FORMATS ==
    {<<"j", "s", "o", "n">>, <<"j", "s", "o", "n", "l", "i", "n", "e", "s">>,
     <<"j", "l">>, <<"x", "m", "l">>, <<"p", "i", "c", "k", "l", "e">>,
     <<"m", "a", "r", "s", "h", "a", "l">>}

\* the file names a user may give: none, two JSON names, a JSON-lines name,
\* a text file, and a name without extension
GivenFiles ==
    {None, KnownFile, <<"a", ".", "J", "S", "O", "N">>, <<"a", ".", "j", "l">>,
     <<"a", ".", "t", "x", "t">>, <<"j", "s", "o", "n">>, <<"a", "b">>}

\* s.rsplit(".", 1)[-1]: what follows the last dot, or all of s without one
RECURSIVE AfterLastDot(_, _)
AfterLastDot(s, i) ==
    IF i = 0 THEN s
    ELSE IF s[i] = "." THEN SubSeq(s, i + 1, Len(s))
    ELSE AfterLastDot(s, i - 1)

\* the slip of accepting every file name
accept_any_file_format(fname) == Return(<<"j", "s", "o", "n">>)

\* SManga._validate_file_format
validate_file_format(fname) ==
    LET ext == AfterLastDot(fname, Len(fname))
        file_format == IF Truthy(fname)
                       THEN [i \in 1..Len(ext) |-> LowerChar(ext[i])]
                       ELSE <<"j", "s", "o", "n">>
    IN  IF file_format \notin SUPPORTED_FORMATS
        THEN Raise("TypeError")
        ELSE Return(file_format)

\* the registered spiders, in the order SpiderLoader lists them, and the
\* base_url of each
OtherSpider == <<"t", "e", "a", "m", "x">>
list_spiders == <<SpiderName, OtherSpider>>
base_url(name) == IF name = SpiderName THEN Site
                  ELSE <<"h", "t", "t", "p", ":", "/", "/", "t", "/">>

\* the URLs and the spider names a user may give
GivenUrls == {None, <<>>, Url1, <<"h", "t", "t", "p", ":", "/", "/", "x", "/", "1">>}
GivenSpiders == {None, SpiderName, OtherSpider, <<"n", "o", "p", "e">>}

\* SManga._is_valid_url
is_valid_url(url, base) == IF Truthy(url) THEN StartsWith(url, base) ELSE FALSE

\* SManga.find_spider_by_base_url: the first spider whose base URL starts the URL
RECURSIVE find_spider_by_base_url(_, _)
find_spider_by_base_url(url, i) ==
    IF i > Len(list_spiders) THEN None
    ELSE IF is_valid_url(url, base_url(list_spiders[i])) THEN list_spiders[i]
    ELSE find_spider_by_base_url(url, i + 1)

\* the slip of taking whatever name is given, or the first spider
validate_no_spider(url, spider_name) ==
    Return(IF Truthy(spider_name) THEN spider_name ELSE list_spiders[1])

\* SManga._validate_spider
validate_spider(url, spider_name) ==
    LET found == IF Truthy(spider_name) THEN spider_name
                 ELSE find_spider_by_base_url(url, 1)
    IN  IF ~Truthy(url) THEN Raise("ValueError")
        ELSE IF ~Truthy(found) THEN Raise("ValueError")
        ELSE IF \A i \in 1..Len(list_spiders) : list_spiders[i] # found
             THEN Raise("ValueError")
        ELSE Return(found)

\* SManga.__init__: the file format is validated, the settings are prepared
SManga_init(url, fname, ow) ==
    /\ pc \in {"idle", "config_error"}
    /\ LET format == validate_file_format(fname)
       IN  /\ pc' = IF format.raised = "none" THEN "configured" ELSE "config_error"
           /\ config' = [url |-> url, file_name |-> fname, overwrite |-> ow,
                         asked |-> None, spider_name |-> None,
                         raised |-> format.raised]
    /\ UNCHANGED <<disk, pipelineVars, spiderVars, prev, saved, runs,
                   final_file_path, last_chapters, browser>>

\* SManga.start up to process.start(): the spider is validated, then the
\* crawl is set up with the settings of _prepare_settings (JSON_FEEDS when no
\* file name was given, Scrapy's own FEEDS otherwise)
start(spider_name) ==
    /\ pc = "configured"
    /\ LET spider == validate_spider(config.url, spider_name)
       IN  IF spider.raised # "none"
           THEN /\ pc' = "config_error"
                /\ config' = [config EXCEPT !.asked = spider_name,
                                            !.raised = spider.raised]
                /\ UNCHANGED <<disk, pipelineVars, spiderVars, prev, saved, runs,
                               final_file_path, last_chapters, browser>>
           ELSE /\ from_crawler(None, config.overwrite, ~Truthy(config.file_name))
                /\ config' = [config EXCEPT !.asked = spider_name,
                                            !.spider_name = spider.value]

\* SManga.custom_json_feed: set to None by __init__ and assigned nowhere else
custom_json_feed == None

\* MangaDataProcessor.process_scraped_data: a feed with at least one chapter
\* gives the entry of its series, with the location of its last chapter
process_scraped_data(entries, feed, fname) ==
    IF feed.chapters = <<>> THEN entries
    ELSE add_or_update_entry(entries,
             LastChapter(SpiderName, feed.details.manganame,
                         feed.chapters[Len(feed.chapters)].document_location, fname))

\* SManga.start after process.start() has returned
start_returns ==
    /\ pc \in {"finished", "aborted"}
    /\ pc' = "returned"
    /\ last_chapters' = IF Truthy(custom_json_feed)
                        THEN process_scraped_data(last_chapters, data, file_name)
                        ELSE last_chapters
    /\ UNCHANGED <<disk, pipelineVars, spiderVars, prev, saved, runs, final_file_path,
                   config, browser>>

\* the add command on a file of the destination directory, between two runs:
\* json.loads or an index raises on anything but a feed with a chapter
add(fname) ==
    /\ pc \in {"idle", "returned"}
    /\ disk[fname].kind = "feed"
    /\ disk[fname].chapters # <<>>
    /\ LET feed == disk[fname]
           site == IF feed.details.set THEN SpiderName ELSE None
       IN  last_chapters' =
               add_or_update_entry(last_chapters,
                   LastChapter(site, feed.details.manganame,
                               feed.chapters[Len(feed.chapters)].document_location,
                               fname))
    /\ UNCHANGED <<disk, pc, pipelineVars, spiderVars, prev, saved, runs,
                   final_file_path, config, browser>>

-----------------------------------------------------------------------------
(* The managers of the bookmark index and of the trash                     *)

\* the longest list of entries a manager is asked to append to
MaxEntries == 3

\* the entries of two series, each with either chapter as its last one
SeriesNames == {<<"A", " ", "b">>, <<"B">>}
BookmarkEntries ==
    {LastChapter(SpiderName, name, url, KnownFile) :
        name \in SeriesNames, url \in {Url1, Url2}}

\* no two entries of the same series
UniqueSeries(entries) ==
    \A i, j \in 1..Len(entries) : SameSeries(entries[i], entries[j]) => i = j

\* what last_chapters.json or trash.json can hold when the browser starts
BookmarkStores ==
    {entries \in UNION {[1..n -> BookmarkEntries] : n \in 0..2} :
        UniqueSeries(entries)}

\* the slip of leaving the entry where it is
remove_nothing(entries, entry) == entries

\* [entry for entry in self.data if last_chapter != entry]
remove_entry(entries, entry) ==
    SelectSeq(entries, LAMBDA other : ~SameSeries(entry, other))

\* BaseManager.update_entry: the first entry of the old series is replaced by
\* the updated entry, or the updated entry is appended
update_entry(entries, old_manga, updated_manga) ==
    LET i == IndexOfSeries(entries, old_manga, 1)
    IN  IF i = 0 THEN Append(entries, updated_manga)
        ELSE [entries EXCEPT ![i] = updated_manga]

\* the two files and the data of the two pairs of managers: that of the main
\* list (a LastChapterManager and its TrashManager) and that of the trash
\* list (a TrashManager and its LastChapterManager)
Stored ==
    [main_file |-> last_chapters, trash_file |-> browser.trash_file,
     list |-> browser.list, bin |-> browser.bin]

\* BaseManager.__init__ of the four managers: each loads its file
Loaded(main_file, trash_file) ==
    [main |-> main_file, trash |-> trash_file]

\* LastChapterManager.add_or_update_entry of a pair, with its save
add_to_index(st, pair, entry) ==
    LET main == add_or_update_entry(st[pair].main, entry)
    IN  [st EXCEPT ![pair].main = main, !.main_file = main]

\* LastChapterManager.update_entry of a pair, with its save
update_in_index(st, pair, old_manga, updated_manga) ==
    LET main == update_entry(st[pair].main, old_manga, updated_manga)
    IN  [st EXCEPT ![pair].main = main, !.main_file = main]

\* LastChapterManager.delete_entry of a pair: the entry leaves the data, the
\* data are saved, and the pair's TrashManager adds the entry and saves
delete_entry(st, pair, entry) ==
    LET main == remove_entry(st[pair].main, entry)
        trash == add_or_update_entry(st[pair].trash, entry)
    IN  [st EXCEPT ![pair] = [main |-> main, trash |-> trash],
                   !.main_file = main, !.trash_file = trash]

\* TrashManager.restore_entry of a pair: the entry leaves the data, the data
\* are saved, and the pair's LastChapterManager adds the entry and saves
restore_entry(st, pair, entry) ==
    LET trash == remove_entry(st[pair].trash, entry)
        main == add_or_update_entry(st[pair].main, entry)
    IN  [st EXCEPT ![pair] = [main |-> main, trash |-> trash],
                   !.trash_file = trash, !.main_file = main]

\* TrashManager.delete_permanently of a pair, with its save
delete_permanently(st, pair, entry) ==
    LET trash == remove_entry(st[pair].trash, entry)
    IN  [st EXCEPT ![pair].trash = trash, !.trash_file = trash]

\* a call on a manager has returned: the files and the data are as it left
\* them, the lists show what they are given
Returned(st, op, arg, manga_list, trash_list, gone) ==
    /\ pc = "idle"
    /\ last_chapters' = st.main_file
    /\ browser' = [trash_file |-> st.trash_file, list |-> st.list, bin |-> st.bin,
                   manga_list |-> manga_list, trash_list |-> trash_list,
                   op |-> op, arg |-> arg,
                   was |-> IF op = "restore_entry" /\ browser.arg = arg
                           THEN browser.op
                           ELSE "none",
                   before |-> IF op = "delete_entry"
                              THEN [main |-> last_chapters,
                                    trash |-> browser.trash_file]
                              ELSE IF op = "restore_entry" THEN browser.before
                              ELSE NoPair,
                   gone |-> gone]
    /\ UNCHANGED <<disk, pc, pipelineVars, spiderVars, prev, saved, runs,
                   final_file_path, config>>

\* calls on the managers of one pair, that of the main list
call_add_or_update_entry(entry) ==
    /\ Len(browser.list.main) < MaxEntries
    /\ Returned(add_to_index(Stored, "list", entry), "add_or_update_entry", entry,
                browser.manga_list, browser.trash_list, browser.gone)

call_update_entry(old_manga, updated_manga) ==
    /\ Len(browser.list.main) < MaxEntries
    /\ Returned(update_in_index(Stored, "list", old_manga, updated_manga),
                "update_entry", updated_manga,
                browser.manga_list, browser.trash_list, browser.gone)

call_delete_entry(entry) ==
    /\ Len(browser.list.trash) < MaxEntries
    /\ Returned(delete_entry(Stored, "list", entry), "delete_entry", entry,
                browser.manga_list, browser.trash_list, browser.gone)

call_restore_entry(entry) ==
    /\ Len(browser.list.main) < MaxEntries
    /\ Returned(restore_entry(Stored, "list", entry), "restore_entry", entry,
                browser.manga_list, browser.trash_list, browser.gone)

\* the entries of the other series
OtherSeries(entries, entry) == {e \in entries : ~SameSeries(e, entry)}

\* list.pop(i)
Pop(list, i) == SubSeq(list, 1, i - 1) \o SubSeq(list, i + 1, Len(list))

\* MangaList.action_delete on the i-th manga shown: delete_entry of the main
\* list's manager, then the manga moves from the main list to the trash list
action_delete(i) ==
    /\ i \in 1..Len(browser.manga_list)
    /\ LET manga == browser.manga_list[i]
       IN  Returned(delete_entry(Stored, "list", manga), "delete_entry", manga,
                    Pop(browser.manga_list, i), Append(browser.trash_list, manga),
                    OtherSeries(browser.gone, manga) \cup {manga})

\* TrashList.action_restore_entry on the i-th manga shown: restore_entry of
\* the trash list's manager, then the manga moves to the main list
action_restore_entry(i) ==
    /\ i \in 1..Len(browser.trash_list)
    /\ LET manga == browser.trash_list[i]
       IN  Returned(restore_entry(Stored, "bin", manga), "restore_entry", manga,
                    Append(browser.manga_list, manga), Pop(browser.trash_list, i),
                    OtherSeries(browser.gone, manga))

\* TrashList.action_purge on the i-th manga shown: delete_permanently of the
\* trash list's manager, then the manga leaves the trash list
action_purge(i) ==
    /\ i \in 1..Len(browser.trash_list)
    /\ LET manga == browser.trash_list[i]
       IN  Returned(delete_permanently(Stored, "bin", manga), "delete_permanently",
                    manga, browser.manga_list, Pop(browser.trash_list, i),
                    OtherSeries(browser.gone, manga))

-----------------------------------------------------------------------------
(* The system                                                              *)

Init ==
    /\ disk = [f \in FileNames |-> Absent]
    /\ pc = "idle"
    /\ file_name = None
    /\ dest_path = FALSE
    /\ overwrite = FALSE
    /\ json_enabled = FALSE
    /\ data = [details |-> NoDetails, chapters |-> <<>>]
    /\ load = FALSE
    /\ scraped_details = TRUE
    /\ request = NoRequest
    /\ item = NoItem
    /\ homeRequests = 0
    /\ scraped = <<>>
    /\ last = NoLast
    /\ prev = Absent
    /\ saved = "none"
    /\ runs = 0
    /\ final_file_path = None
    /\ last_chapters = <<>>
    /\ config = NoConfig
    /\ browser = NoBrowser

Next ==
    \/ \E fn \in {None, KnownFile}, ow \in BOOLEAN, feeds \in BOOLEAN :
          runs < MaxRuns /\ NewRun(fn, ow, feeds)
    \/ open_spider
    \/ start_requests(Url1)
    \/ \E page \in FeedPages : parse(page)
    \/ \E name \in MangaNames : get_details_and_retry(name, Cover)
    \/ fetch_fails
    \/ process_item
    \/ \E outcome \in SaveOutcomes : close_spider(outcome)
    \/ spider_closed
    \/ start_returns

Spec == Init /\ [][Next]_vars

\* One crawl against an empty destination directory, fed every kind of page:
\* every payload, every next-page value, a home page with or without a name.
CrawlNext ==
    \/ \E fn \in {None, KnownFile}, ow \in BOOLEAN, feeds \in BOOLEAN :
          runs = 0 /\ NewRun(fn, ow, feeds)
    \/ open_spider
    \/ \E url \in ChapterUrls : start_requests(url)
    \/ \E page \in CrawlPages : parse(page)
    \/ \E name \in HomePages : get_details_and_retry(name, Cover)
    \/ fetch_fails
    \/ process_item
    \/ \E outcome \in SaveOutcomes : close_spider(outcome)
    \/ spider_closed

CrawlSpec == Init /\ [][CrawlNext]_vars

\* Re-runs over a site whose two chapter pages carry titles with the same
\* number and link to each other: one crawl more than MaxRuns, from either page.
RerunPages ==
    {p \in FeedPages :
        /\ p.title \in {<<"c", "1", "0">>, <<"1", "0", "b", "5">>}
        /\ p.direct = <<"a">>}

RerunNext ==
    \/ \E fn \in {None, KnownFile} :
          runs < MaxRuns + 1 /\ NewRun(fn, FALSE, TRUE)
    \/ open_spider
    \/ \E url \in ChapterUrls : start_requests(url)
    \/ \E page \in RerunPages, next \in {None, Url1, Url2} :
          parse([page EXCEPT !.next = next])
    \/ \E name \in MangaNames : get_details_and_retry(name, Cover)
    \/ fetch_fails
    \/ process_item
    \/ close_spider("written")
    \/ spider_closed

RerunSpec == Init /\ [][RerunNext]_vars

\* The merge applied to every short list of chapters a crawl can have gathered:
\* titles with one number, with a later number, with Arabic-Indic digits, with
\* no number.
SortTitles ==
    {<<"c", "1", "0">>, <<"c", "2">>, <<"c", "1">>, <<"c", "2", "x", "1">>,
     <<"U+0663", "c", "9">>, <<"c", "U+0661">>, <<"e", "x">>}

SortInputs ==
    UNION {[1..n -> SortTitles] : n \in 0..MaxTitles}

\* the pipeline after process_item has taken the items of a crawl that was
\* given a file name and overwrite=true
SortInit ==
    \E titles \in SortInputs :
        LET chapter(i) == Chapter(titles[i], <<"a">>, IF i = 1 THEN Url1 ELSE Url2)
        IN  /\ disk = [f \in FileNames |-> Absent]
            /\ pc = "crawling"
            /\ file_name = KnownFile
            /\ dest_path = TRUE
            /\ overwrite = TRUE
            /\ json_enabled = TRUE
            /\ data = [details |-> NoDetails,
                       chapters |-> [i \in 1..Len(titles) |-> chapter(i)]]
            /\ load = FALSE
            /\ scraped_details = FALSE
            /\ request = NoRequest
            /\ item = NoItem
            /\ homeRequests = 0
            /\ scraped = [i \in 1..Len(titles) |->
                             [has |-> TRUE, details |-> NoDetails,
                              chapters |-> chapter(i)]]
            /\ last = NoLast
            /\ prev = Absent
            /\ saved = "none"
            /\ runs = 1
            /\ final_file_path = None
            /\ last_chapters = <<>>
            /\ config = NoConfig
            /\ browser = NoBrowser

SortNext ==
    \/ close_spider("written")
    \/ spider_closed

SortSpec == SortInit /\ [][SortNext]_vars

\* One crawl into a directory that already holds the feed file in any state:
\* missing, cut short, unreadable, not UTF-8, or a feed of an earlier crawl.
FileStates ==
    {Absent, Truncated, Unreadable, NotUtf8,
     Feed(NoDetails, <<Chapter(<<"c", "1", "0">>, NoImages, Url2)>>)}

LoadInit ==
    /\ disk \in [FileNames -> FileStates]
    /\ pc = "idle"
    /\ file_name = None
    /\ dest_path = FALSE
    /\ overwrite = FALSE
    /\ json_enabled = FALSE
    /\ data = [details |-> NoDetails, chapters |-> <<>>]
    /\ load = FALSE
    /\ scraped_details = TRUE
    /\ request = NoRequest
    /\ item = NoItem
    /\ homeRequests = 0
    /\ scraped = <<>>
    /\ last = NoLast
    /\ prev = Absent
    /\ saved = "none"
    /\ runs = 0
    /\ final_file_path = None
    /\ last_chapters = <<>>
    /\ config = NoConfig
    /\ browser = NoBrowser

LoadNext ==
    \/ \E fn \in {None, KnownFile}, ow \in BOOLEAN :
          runs = 0 /\ NewRun(fn, ow, TRUE)
    \/ open_spider
    \/ start_requests(Url1)
    \/ \E page \in FeedPages : parse(page)
    \/ \E name \in MangaNames : get_details_and_retry(name, Cover)
    \/ fetch_fails
    \/ engine_stopped
    \/ process_killed
    \/ process_item
    \/ \E outcome \in SaveOutcomes : close_spider(outcome)
    \/ spider_closed

LoadSpec == LoadInit /\ [][LoadNext]_vars

\* Crawls that write their feed, each followed by the return of SManga.start,
\* with the add command run on the feed file between them.
IndexNext ==
    \/ \E fn \in {None, KnownFile} :
          runs < MaxRuns /\ NewRun(fn, FALSE, TRUE)
    \/ open_spider
    \/ \E url \in ChapterUrls : start_requests(url)
    \/ \E page \in RerunPages : parse(page)
    \/ \E name \in MangaNames : get_details_and_retry(name, Cover)
    \/ fetch_fails
    \/ process_item
    \/ close_spider("written")
    \/ spider_closed
    \/ start_returns
    \/ \E fname \in FileNames : add(fname)

IndexSpec == Init /\ [][IndexNext]_vars

\* SManga from its construction on: every file name, URL and spider name a
\* user may give, then the crawl the settings lead to.
ConfigPages ==
    {p \in FeedPages : p.title \in {<<"c", "2">>, <<"e", "x">>} /\ p.direct = <<"a">>}

ConfigNext ==
    \/ \E url \in GivenUrls, fname \in GivenFiles, ow \in BOOLEAN :
          SManga_init(url, fname, ow)
    \/ \E spider_name \in GivenSpiders : start(spider_name)
    \/ open_spider
    \/ start_requests(config.url)
    \/ \E page \in ConfigPages : parse(page)
    \/ \E name \in MangaNames : get_details_and_retry(name, Cover)
    \/ process_item
    \/ close_spider("written")
    \/ spider_closed
    \/ start_returns

ConfigSpec == Init /\ [][ConfigNext]_vars

\* One crawl of chapter pages that carry any combination of direct images and
\* protector payload: every kind of payload, on a page with or without img
\* elements of its own (with or without a usable attribute), encrypting
\* either list.
ImagePages ==
    {p \in ChapterPages :
        /\ p.title = <<"c", "2">>
        /\ p.direct # <<"b">>
        /\ p.home = None
        /\ p.next \in {None, Url2}}

ImageNext ==
    \/ runs = 0 /\ NewRun(KnownFile, FALSE, TRUE)
    \/ open_spider
    \/ start_requests(Url1)
    \/ \E page \in ImagePages : parse(page)
    \/ process_item
    \/ close_spider("written")
    \/ spider_closed

ImageSpec == Init /\ [][ImageNext]_vars

\* One crawl whose home page gives any combination of series name and cover,
\* with or without a file name given.
DetailNext ==
    \/ \E fn \in {None, KnownFile}, ow \in BOOLEAN : runs = 0 /\ NewRun(fn, ow, TRUE)
    \/ open_spider
    \/ \E url \in ChapterUrls : start_requests(url)
    \/ \E page \in ConfigPages : parse(page)
    \/ \E name \in HomePages, cover \in Covers : get_details_and_retry(name, cover)
    \/ process_item
    \/ close_spider("written")
    \/ spider_closed

DetailSpec == Init /\ [][DetailNext]_vars

\* The pagination over chapter pages that carry only a protected payload:
\* every password, salt and list of URLs.
DecryptInit ==
    /\ disk = [f \in FileNames |-> Absent]
    /\ pc = "crawling"
    /\ file_name = KnownFile
    /\ dest_path = TRUE
    /\ overwrite = TRUE
    /\ json_enabled = TRUE
    /\ data = [details |-> NoDetails, chapters |-> <<>>]
    /\ load = FALSE
    /\ scraped_details = FALSE
    /\ request = [url |-> Url1, callback |-> "parse", retry |-> None,
                  details_item |-> NoDetails]
    /\ item = NoItem
    /\ homeRequests = 0
    /\ scraped = <<>>
    /\ last = NoLast
    /\ prev = Absent
    /\ saved = "none"
    /\ runs = 1
    /\ final_file_path = None
    /\ last_chapters = <<>>
    /\ config = NoConfig
    /\ browser = NoBrowser

DecryptNext ==
    \/ \E password \in Passwords, salt \in Salts, urls \in UrlLists,
          next \in {None, Url2} : parse_protected(password, salt, urls, next)
    \/ process_item

DecryptSpec == DecryptInit /\ [][DecryptNext]_vars

\* One crawl in which every fetch returns a page and the chain of next-page
\* URLs is finite: the page that brings the chain to MaxPages names no next
\* page.  The engine keeps going while it has a request to fetch, an item to
\* process or a spider to close, which is what the fairness condition says.
TermPages ==
    {p \in CrawlPages :
        /\ p.title = <<"c", "2">>
        /\ p.payload \in {"absent", "ok", "plain_not_json"}
        /\ p.next \in {None, Url2, <<"/", "2">>}}

TermNext ==
    \/ \E fn \in {None, KnownFile} : runs = 0 /\ NewRun(fn, FALSE, TRUE)
    \/ open_spider
    \/ start_requests(Url1)
    \/ \E page \in TermPages :
          /\ (Len(scraped) = MaxPages - 1 /\ ~TakesDetour(page)) => page.next = None
          /\ parse(page)
    \/ \E name \in MangaNames : get_details_and_retry(name, Cover)
    \/ process_item
    \/ close_spider("written")
    \/ spider_closed

TermSpec == Init /\ [][TermNext]_vars /\ WF_vars(TermNext)

\* what an attribute of the cover element can hold: nothing, the empty string,
\* a URL, a URL with a descriptor, a URL after a space
AttrValues == {None, <<>>, <<"u">>, <<"v", " ", "2", "x">>, <<" ", "w">>}

\* the selections the cover selector can give: none, or an element with any
\* values of the five attributes
Elements == {NoElement} \cup {Element(attrib) : attrib \in [AttributeNames -> AttrValues]}

\* One crawl whose home page carries any cover element.
ElementNext ==
    \/ \E fn \in {None, KnownFile} : runs = 0 /\ NewRun(fn, FALSE, TRUE)
    \/ open_spider
    \/ start_requests(Url1)
    \/ \E page \in ConfigPages : parse(page)
    \/ \E name \in HomePages, element \in Elements :
          get_details_of_cover_element(name, element)
    \/ process_item
    \/ close_spider("written")
    \/ spider_closed

ElementSpec == Init /\ [][ElementNext]_vars

\* no crawl has run
NoCrawl ==
    /\ disk = [f \in FileNames |-> Absent]
    /\ pc = "idle"
    /\ file_name = None
    /\ dest_path = FALSE
    /\ overwrite = FALSE
    /\ json_enabled = FALSE
    /\ data = [details |-> NoDetails, chapters |-> <<>>]
    /\ load = FALSE
    /\ scraped_details = TRUE
    /\ request = NoRequest
    /\ item = NoItem
    /\ homeRequests = 0
    /\ scraped = <<>>
    /\ last = NoLast
    /\ prev = Absent
    /\ saved = "none"
    /\ runs = 0
    /\ final_file_path = None
    /\ config = NoConfig

\* One pair of managers is made over any two files without a repeated series.
StoreInit ==
    /\ NoCrawl
    /\ last_chapters \in BookmarkStores
    /\ \E trash_file \in BookmarkStores :
          browser = [NoBrowser EXCEPT
                        !.trash_file = trash_file,
                        !.list = Loaded(last_chapters, trash_file)]

\* The browser is started on any two files without a repeated series: the
\* four managers load them and the two lists show them.
BrowserInit ==
    /\ NoCrawl
    /\ last_chapters \in BookmarkStores
    /\ \E trash_file \in BookmarkStores :
          browser = [NoBrowser EXCEPT
                        !.trash_file = trash_file,
                        !.list = Loaded(last_chapters, trash_file),
                        !.bin = Loaded(last_chapters, trash_file),
                        !.manga_list = last_chapters,
                        !.trash_list = trash_file]

\* Any calls on the managers of one pair.
StoreNext ==
    \/ \E entry \in BookmarkEntries : call_add_or_update_entry(entry)
    \/ \E old_manga, updated_manga \in BookmarkEntries :
          call_update_entry(old_manga, updated_manga)
    \/ \E entry \in BookmarkEntries : call_delete_entry(entry)
    \/ \E entry \in BookmarkEntries : call_restore_entry(entry)

StoreSpec == StoreInit /\ [][StoreNext]_vars

\* Any deletions in the main list and restorations and purges in the trash
\* list of the browser.
BrowserNext ==
    \/ \E i \in 1..MaxEntries : action_delete(i)
    \/ \E i \in 1..MaxEntries : action_restore_entry(i)
    \/ \E i \in 1..MaxEntries : action_purge(i)

BrowserSpec == BrowserInit /\ [][BrowserNext]_vars

-----------------------------------------------------------------------------
(* What the claims speak of                                                *)

\* close_spider has written the feed file of this run
WroteFeed == pc \in {"closed", "finished"} /\ saved = "written"

\* the run has ended, however the save went
RunEnded == pc \in {"closed", "finished", "killed"}

\* the feed at the output path before this run wrote it
ExistingFeed == prev

\* the feed at the output path now
WrittenFeed == disk[file_name]

\* the chapter records this run scraped, in page order
ScrapedChapters == [i \in 1..Len(scraped) |-> scraped[i].chapters]

\* some item of this run carried series details
ProducedDetails == \E i \in 1..Len(scraped) : scraped[i].details.set

TitlesOf(chs) == {chs[i].title : i \in 1..Len(chs)}
RecordsOf(chs) == {chs[i] : i \in 1..Len(chs)}
Positions(chs, t) == {i \in 1..Len(chs) : chs[i].title = t}
Max(S) == CHOOSE x \in S : \A y \in S : y <= x
LastWithTitle(chs, t) == chs[Max(Positions(chs, t))]

NoDuplicateTitles(chs) ==
    \A i, j \in 1..Len(chs) : chs[i].title = chs[j].title => i = j

HasNumber(c) == \E i \in 1..Len(c.title) : c.title[i] \in Digits
NumberOf(c) == extract_chapter_number(c)[2]

\* ascending by number, the records without a number after all the others
AscendingByNumber(chs) ==
    \A i, j \in 1..Len(chs) :
        i < j =>
            /\ HasNumber(chs[j]) => HasNumber(chs[i])
            /\ (HasNumber(chs[i]) /\ HasNumber(chs[j])) =>
                    NumberOf(chs[i]) <= NumberOf(chs[j])

-----------------------------------------------------------------------------
(* C1 .. C10                                                               *)

\* C1: with overwrite=false, for every title that both the existing feed and
\* this crawl carry, the written feed holds exactly one record with that title
\* and it is the one scraped in this run, whether the existing feed was loaded
\* at crawl start or at crawl end.
C1_FreshRecordWins ==
    (WroteFeed /\ ~overwrite /\ ExistingFeed.kind = "feed") =>
        \A t \in TitlesOf(ExistingFeed.chapters) \cap TitlesOf(ScrapedChapters) :
            /\ Cardinality(Positions(WrittenFeed.chapters, t)) = 1
            /\ LastWithTitle(WrittenFeed.chapters, t) = LastWithTitle(ScrapedChapters, t)

\* the half of C1 the code keeps: the feed was loaded at crawl start
C1_FreshRecordWinsLoadedAtStart ==
    (WroteFeed /\ ~overwrite /\ ExistingFeed.kind = "feed"
        /\ Len(scraped) > 0 /\ ~scraped[1].details.set) =>
        \A t \in TitlesOf(ExistingFeed.chapters) \cap TitlesOf(ScrapedChapters) :
            /\ Cardinality(Positions(WrittenFeed.chapters, t)) = 1
            /\ LastWithTitle(WrittenFeed.chapters, t) = LastWithTitle(ScrapedChapters, t)

C3_DetailsNeverRegress ==
    (WroteFeed /\ ExistingFeed.kind = "feed" /\ ExistingFeed.details.set
        /\ ~ProducedDetails) =>
        WrittenFeed.details = ExistingFeed.details

\* the half of C3 the code keeps: overwrite=false
C3_DetailsKeptWithoutOverwrite ==
    (WroteFeed /\ ~overwrite /\ ExistingFeed.kind = "feed"
        /\ ExistingFeed.details.set /\ ~ProducedDetails) =>
        WrittenFeed.details = ExistingFeed.details

\* C4: whatever happens during a save, the file at the feed path holds the
\* complete previous feed or the complete new feed.
C4_SaveIsCrashSafe ==
    (RunEnded /\ saved # "none" /\ ExistingFeed.kind = "feed") =>
        WrittenFeed \in {ExistingFeed, Feed(data.details, data.chapters)}

\* C5: a crawl issues at most one home-page request.
C5_AtMostOneHomeRequest == homeRequests <= 1

\* after the detour, a second chapter page that again names a home page has
\* been parsed into a record
C5_Witness ==
    /\ homeRequests = 1
    /\ Len(scraped) = 2
    /\ last.callback = "parse"
    /\ last.outcome = "item"
    /\ last.home = HomeUrl

\* C6: when the fetch of the home page fails, the crawl still yields a chapter
\* record for the page it was started on.
C6_HomeFailureKeepsChapters ==
    (RunEnded /\ last.callback = "get_details_and_retry"
        /\ last.outcome = "fetch_failed") =>
        /\ Len(scraped) >= 1
        /\ ~scraped[1].details.set

\* the payloads that fail to decode for a reason the specification lists
ListedDecodeFailures ==
    {"bad_base64", "wrong_salt_length", "bad_padding", "plain_not_json",
     "plain_not_string", "inner_not_json"}

\* C7: a chapter page without direct images whose payload fails to decode
\* still gives a chapter record, with no images, and the next page is followed.
C7_DecodeFailureGivesEmptyImages ==
    (last.callback = "parse" /\ last.payload \in ListedDecodeFailures) =>
        /\ last.outcome = "item"
        /\ item.has
        /\ item.chapters.images = NoImages
        /\ request = FollowNext(last.next)

\* the failures decrypt_chapter_data's except clause absorbs
C7_CaughtFailuresGiveEmptyImages ==
    (last.callback = "parse"
        /\ last.payload \in {"bad_base64", "bad_padding", "bad_hex_salt",
                             "bad_outer_json", "missing_key", "bad_utf8"}) =>
        /\ last.outcome = "item"
        /\ item.chapters.images = NoImages
        /\ request = FollowNext(last.next)

\* C8: with overwrite=false and an existing feed, the titles of the written
\* feed are the titles of the existing feed together with the scraped titles.
C8_TitlesAreTheUnion ==
    (WroteFeed /\ ~overwrite /\ ExistingFeed.kind = "feed") =>
        TitlesOf(WrittenFeed.chapters) =
            TitlesOf(ExistingFeed.chapters) \cup TitlesOf(ScrapedChapters)

\* an existing title the crawl did not see, a scraped title the feed did not
\* have, with the file name derived from the series name
C8_Witness ==
    /\ WroteFeed /\ ~overwrite /\ ExistingFeed.kind = "feed"
    /\ ProducedDetails
    /\ TitlesOf(ExistingFeed.chapters) \ TitlesOf(ScrapedChapters) # {}
    /\ TitlesOf(ScrapedChapters) \ TitlesOf(ExistingFeed.chapters) # {}

C10_RerunKeepsFeed ==
    (WroteFeed /\ ~overwrite /\ ExistingFeed.kind = "feed"
        /\ RecordsOf(ScrapedChapters) = RecordsOf(ExistingFeed.chapters)) =>
        WrittenFeed.chapters = ExistingFeed.chapters

\* the part of C10 the code keeps: the same set of records
C10_RerunKeepsRecords ==
    (WroteFeed /\ ~overwrite /\ ExistingFeed.kind = "feed"
        /\ RecordsOf(ScrapedChapters) = RecordsOf(ExistingFeed.chapters)) =>
        RecordsOf(WrittenFeed.chapters) = RecordsOf(ExistingFeed.chapters)

\* the key the sort is said to use: the first run of the characters 0-9, read
\* as an integer; no such character, no number
RECURSIVE AsciiFirstDigit(_, _)
AsciiFirstDigit(title, i) ==
    IF i > Len(title) THEN 0
    ELSE IF title[i] \in Digits THEN i
    ELSE AsciiFirstDigit(title, i + 1)

RECURSIVE AsciiReadInt(_, _, _)
AsciiReadInt(title, i, acc) ==
    IF i > Len(title) \/ title[i] \notin Digits THEN acc
    ELSE AsciiReadInt(title, i + 1, acc * 10 + DigitVal(title[i]))

AsciiKey(c) ==
    LET i == AsciiFirstDigit(c.title, 1)
    IN  IF i = 0 THEN <<1, 0>> ELSE <<0, AsciiReadInt(c.title, i, 0)>>

OnlyAsciiDigits(c) == \A i \in 1..Len(c.title) : c.title[i] \notin ArabicIndicDigits

\* C11: the written chapters ascend by the integer their first run of ASCII
\* digits reads (c1, c2, c10), titles with no ASCII digit last; later runs and
\* every other character play no part.
C11_SortedByFirstAsciiNumber ==
    WroteFeed =>
        \A i, j \in 1..Len(WrittenFeed.chapters) :
            i < j => ~KeyLess(AsciiKey(WrittenFeed.chapters[j]),
                              AsciiKey(WrittenFeed.chapters[i]))

\* the part of C11 that holds: among titles whose only digits are ASCII, the
\* order is the numeric order of the first run
C11_NumericAmongAsciiTitles ==
    WroteFeed =>
        \A i, j \in 1..Len(WrittenFeed.chapters) :
            (i < j /\ OnlyAsciiDigits(WrittenFeed.chapters[i])
                   /\ OnlyAsciiDigits(WrittenFeed.chapters[j])) =>
                ~KeyLess(AsciiKey(WrittenFeed.chapters[j]),
                         AsciiKey(WrittenFeed.chapters[i]))


\* parse has just yielded the record of the first chapter page
EmittedFirstRecord ==
    /\ pc = "crawling"
    /\ last.callback = "parse"
    /\ last.outcome = "item"
    /\ Len(scraped) = 1

\* the engine is left with nothing to fetch
NothingToFetch == pc = "crawling" /\ request = NoRequest

\* C12: when the first chapter page names no next page, parse schedules no
\* request after its record, and a crawl with no request scheduled emits no
\* further record and issues no further fetch: it ends with that one record.
C12_NoNextPageEndsCrawl ==
    /\ []((EmittedFirstRecord /\ last.next = None) => NothingToFetch)
    /\ [][NothingToFetch =>
              /\ request' = NoRequest
              /\ scraped' = scraped
              /\ homeRequests' = homeRequests]_vars

C12_Witness ==
    /\ EmittedFirstRecord
    /\ last.next = None
    /\ NothingToFetch
    /\ homeRequests = 1
    /\ scraped[1].details.set


\* the crawl took the home-page detour, the home page gave no series name,
\* and the run came to its end with the feed enabled and no failure of the save
EndedAfterNamelessHomePage ==
    /\ pc \in {"closed", "finished"}
    /\ json_enabled
    /\ saved \in {"none", "written"}
    /\ Len(scraped) >= 1
    /\ scraped[1].details.set
    /\ scraped[1].details.manganame = None

\* C13: when the first page names a home page and the home page lacks the
\* details, the crawl fetches the home page exactly once and still ends with a
\* written feed, whose details carry no name and whose chapters hold the
\* record of the first page.
C13_NamelessHomePageStillGivesFeed ==
    EndedAfterNamelessHomePage =>
        /\ homeRequests = 1
        /\ WroteFeed
        /\ WrittenFeed.details.manganame = None
        /\ scraped[1].chapters.title \in TitlesOf(WrittenFeed.chapters)

\* the part of C13 that holds: the home page is fetched exactly once, and a
\* crawl that was given a file name writes its feed
C13_SingleHomeFetch ==
    EndedAfterNamelessHomePage =>
        /\ homeRequests = 1
        /\ saved = "written" =>
              /\ WrittenFeed.details.manganame = None
              /\ scraped[1].chapters.title \in TitlesOf(WrittenFeed.chapters)


\* an absolute, scheme-qualified URL: a scheme, then ://
WellFormedUrl(u) ==
    /\ Truthy(u)
    /\ \E i \in 2..(Len(u) - 2) :
          /\ SubSeq(u, i, i + 2) = <<":", "/", "/">>
          /\ \A j \in 1..(i - 1) : u[j] \notin {"/", ":", " "}

\* parse has just yielded a chapter record and looked at the next-page URL
LookedAtNext ==
    /\ pc = "crawling"
    /\ last.callback = "parse"
    /\ last.outcome = "item"

\* C14: after a chapter record, the crawl requests the next page if and only
\* if the next-page URL is present and well-formed (absolute, with a scheme),
\* and then it requests that URL; otherwise nothing is scheduled and the
\* record just gathered stays.
C14_FollowsExactlyWellFormedNext ==
    LookedAtNext =>
        /\ (request # NoRequest) <=> WellFormedUrl(last.next)
        /\ request # NoRequest => request.url = Strip(last.next)
        /\ item.has /\ scraped[Len(scraped)] = item

\* the part of C14 that holds: an absent or empty URL and one that does not
\* begin with http end pagination with the record kept; an absolute http URL
\* is followed
C14_FollowsAbsoluteHttpNext ==
    LookedAtNext =>
        /\ item.has /\ scraped[Len(scraped)] = item
        /\ (~Truthy(last.next) \/ ~StartsWith(last.next, Http)) => request = NoRequest
        /\ (WellFormedUrl(last.next) /\ StartsWith(last.next, Http)) =>
              request.url = Strip(last.next)


\* the chapters open_spider put into the buffer before the crawl
LoadedAtStart == IF load THEN disk[file_name].chapters ELSE <<>>

\* the items the pipeline has been handed so far, in the order of the visits
ProcessedItems ==
    IF item.has THEN SubSeq(scraped, 1, Len(scraped) - 1) ELSE scraped

\* process_item appended the item's chapter (it drops an item whose details
\* carry no name when the file name is to be derived from it)
Kept(it) == ~(it.details.set /\ it.details.manganame = None /\ ~Truthy(file_name))

AppendedChapters ==
    LET kept == SelectSeq(ProcessedItems, Kept)
    IN  [i \in 1..Len(kept) |-> kept[i].chapters]

\* C15: while the crawl runs, the chapters of the merge buffer are the ones
\* loaded at the start followed by the records of the processed pages in the
\* order the pages were visited.
C15_BufferFollowsVisitOrder ==
    (pc = "crawling" /\ json_enabled) =>
        data.chapters = LoadedAtStart \o AppendedChapters

C15_Witness ==
    /\ pc = "crawling" /\ json_enabled /\ load
    /\ Len(LoadedAtStart) >= 1
    /\ Len(scraped) = 2 /\ ~item.has
    /\ scraped[1].chapters.document_location = Url2
    /\ scraped[2].chapters.document_location = Url1
    /\ scraped[1].chapters.title # scraped[2].chapters.title


\* the first page named no home page, the crawl gathered records, and the run
\* came to its end with the feed enabled and no failure of the save
EndedWithoutHomePage ==
    /\ pc \in {"closed", "finished"}
    /\ json_enabled
    /\ saved \in {"none", "written"}
    /\ homeRequests = 0
    /\ Len(scraped) >= 1

\* C16: a crawl whose first page names no home page goes on without details,
\* and at its end the records it gathered are written to the feed.
C16_NoHomePageStillPersists ==
    EndedWithoutHomePage =>
        /\ ~ProducedDetails
        /\ WroteFeed
        /\ TitlesOf(ScrapedChapters) \subseteq TitlesOf(WrittenFeed.chapters)

\* the part of C16 that holds: the crawl goes on without details and hands
\* every record to the pipeline, and a crawl that was given a file name
\* writes them
C16_PersistedUnderGivenName ==
    EndedWithoutHomePage =>
        /\ ~ProducedDetails
        /\ TitlesOf(ScrapedChapters) = TitlesOf(data.chapters)
        /\ Truthy(file_name) =>
              /\ WroteFeed
              /\ TitlesOf(ScrapedChapters) \subseteq TitlesOf(WrittenFeed.chapters)


\* a run with overwrite=false whose feed file name is known has come to its
\* end, by closing or by an exception, with no failure of the save itself
EndedMergeRun ==
    /\ pc \in {"closed", "finished", "aborted"}
    /\ json_enabled /\ ~overwrite /\ Truthy(file_name)
    /\ saved \notin {"open_failed", "write_failed"}

\* the file the run found was no feed: missing, unreadable, or not valid JSON
\* (cut short, or not even UTF-8)
FoundNoFeed == (IF saved = "written" THEN prev ELSE disk[file_name]).kind # "feed"

\* C17: whatever state the existing file is in, the run is not aborted by
\* loading it: it writes a feed, and when the file was missing, unreadable or
\* not valid JSON the feed holds this run's records alone.
C17_LoadNeverAbortsRun ==
    EndedMergeRun =>
        /\ WroteFeed
        /\ FoundNoFeed =>
              WrittenFeed.chapters = clean_and_sort_chapters(ScrapedChapters)

\* the part of C17 that holds: a missing file, an unreadable file and a file
\* of text that is not JSON are treated as no existing data
C17_CaughtLoadFailuresGiveNoData ==
    (EndedMergeRun /\ (IF saved = "written" THEN prev ELSE disk[file_name]).kind
                          \in {"absent", "truncated", "unreadable"}) =>
        /\ WroteFeed
        /\ WrittenFeed.chapters = clean_and_sort_chapters(ScrapedChapters)


\* save_data_to_file could not write the feed
SaveFailed == saved \in {"open_failed", "write_failed"}

\* what the caller of SManga.start holds when it returns: start returns no
\* value and raises nothing, the run leaves these attributes on the object
CallerView ==
    [final_file_path |-> final_file_path, custom_json_feed |-> custom_json_feed]

\* the view a run leaves that has written its feed
SavedView == [final_file_path |-> file_name, custom_json_feed |-> None]

\* C18: when the write of the feed fails, what the caller of the crawl gets
\* back differs from what a successful run gives it, and after the failed
\* attempt the run does not touch the file again.
C18_WriteFailureReportedOnce ==
    /\ []((pc = "returned" /\ SaveFailed) => CallerView # SavedView)
    /\ [][(SaveFailed /\ pc' # "constructed") =>
              (disk' = disk /\ saved' = saved)]_vars

\* the part of C18 that holds: one attempt per run, and a run that wrote its
\* feed leaves the view a failed one leaves too
C18_WriteAttemptedOnce ==
    /\ []((pc = "returned" /\ saved = "written") => CallerView = SavedView)
    /\ [][(saved # "none" /\ pc' # "constructed") =>
              (disk' = disk /\ saved' = saved)]_vars


\* the step is close_spider's, taken when the engine has nothing left to do
ClosingStep ==
    /\ pc = "crawling" /\ pc' \in {"closed", "killed"}
    /\ request = NoRequest /\ ~item.has

\* the crawl was stopped with a fetch in flight, and the run is over
EndedAbandoned ==
    /\ pc \in {"closed", "finished"}
    /\ last.outcome = "abandoned"

\* C19: only the close of the crawl writes the feed file, no step of the
\* pagination does; and a crawl that was stopped before its pagination ended
\* leaves the file as it found it.
C19_FileWrittenOnlyWhenDone ==
    /\ [][disk' # disk => ClosingStep]_vars
    /\ [](EndedAbandoned => (saved = "none" \/ disk[file_name] = prev))

\* the part of C19 that holds: no step but close_spider's touches the file,
\* and a killed crawl leaves it as it was
C19_OnlyCloseSpiderWrites ==
    /\ [][disk' # disk => ClosingStep]_vars
    /\ [][(pc = "crawling" /\ pc' = "killed" /\ (request # NoRequest \/ item.has))
              => disk' = disk]_vars


\* SManga.start has returned from a crawl that yielded a chapter and wrote
\* its feed
ReturnedWithChapters ==
    /\ pc = "returned"
    /\ saved = "written"
    /\ Len(scraped) >= 1

\* the entries of the bookmark index for the series of this crawl
EntriesOfThisSeries ==
    {i \in 1..Len(last_chapters) :
        /\ last_chapters[i].site = SpiderName
        /\ last_chapters[i].name = data.details.manganame}

\* C20: when a crawl that yielded a chapter has completed, the bookmark index
\* holds exactly one entry for its site and series, and that entry carries
\* the location of the feed's last chapter and the feed's file name.
C20_CrawlLeavesOneBookmark ==
    ReturnedWithChapters =>
        /\ Cardinality(EntriesOfThisSeries) = 1
        /\ \A i \in EntriesOfThisSeries :
              /\ last_chapters[i].last_chapter =
                     data.chapters[Len(data.chapters)].document_location
              /\ last_chapters[i].file_name = file_name

\* the part of C20 that holds: the index never holds two entries of one
\* site and series, an entry added for a series overwrites the earlier one
C20_IndexKeyedBySeries ==
    \A i, j \in 1..Len(last_chapters) :
        i < j => ~SameSeries(last_chapters[i], last_chapters[j])



-----------------------------------------------------------------------------
(* C21: configuration errors                                               *)

\* SManga.start has been called on the constructed object, or the
\* construction itself has failed
StartAttempted == pc \notin {"idle", "configured"}

\* the file name given ends in an extension that is no supported format
UnsupportedFormat ==
    LET fname == config.file_name
        ext == AfterLastDot(fname, Len(fname))
    IN  /\ Truthy(fname)
        /\ [i \in 1..Len(ext) |-> LowerChar(ext[i])] \notin SUPPORTED_FORMATS

Registered == {list_spiders[i] : i \in 1..Len(list_spiders)}

\* no spider was named and the URL starts with no registered base URL
NoMatchingExtractor ==
    /\ ~Truthy(config.asked)
    /\ \A name \in Registered : ~StartsWith(config.url, base_url(name))

\* the spider named is not registered
UnknownExtractor == Truthy(config.asked) /\ config.asked \notin Registered

NothingFetchedOrWritten ==
    /\ runs = 0
    /\ request = NoRequest
    /\ homeRequests = 0
    /\ scraped = <<>>
    /\ \A f \in FileNames : disk[f] = Absent

\* C21: an unsupported file format, a URL that matches no registered spider
\* when none is named, and a named spider that is not registered each raise an
\* error, and no crawl is started: no request has been issued and no file has
\* been written.
C21_ConfigErrorsStopBeforeCrawl ==
    (StartAttempted /\ (UnsupportedFormat \/ NoMatchingExtractor \/ UnknownExtractor))
        => /\ pc = "config_error"
           /\ config.raised \in {"TypeError", "ValueError"}
           /\ NothingFetchedOrWritten

\* a URL of no registered site, given without a spider name, has been refused
C21_Witness ==
    /\ pc = "config_error"
    /\ config.raised = "ValueError"
    /\ ~UnsupportedFormat
    /\ Truthy(config.url)
    /\ NoMatchingExtractor

\* the other two errors are raised too
C21_UnsupportedFormatRefused ==
    pc = "config_error" /\ config.raised = "TypeError" /\ UnsupportedFormat
C21_UnknownExtractorRefused ==
    /\ pc = "config_error" /\ config.raised = "ValueError"
    /\ UnknownExtractor /\ StartsWith(config.url, Site)

\* a valid configuration does start a crawl that fetches and writes
C21_ValidConfigCrawls ==
    /\ pc = "finished" /\ config.raised = "none" /\ scraped # <<>>
    /\ \E f \in FileNames : disk[f] # Absent


-----------------------------------------------------------------------------
(* C22: image resolution                                                   *)

\* parse has just resolved the images of a chapter page
ResolvedImages == last.callback = "parse" /\ last.outcome \in {"item", "raised"}

\* every img element of the page gave a URL
AllUsable(direct) == \A i \in 1..Len(direct) : direct[i] # NoUrl

\* the payloads that are on the page and do not decode to a list of URLs
FailingPayloads == PayloadKinds \ {"absent", "ok"}

\* C22: a non-empty direct image list is the chapter's image list whatever
\* payload the page carries; with no direct image a payload that decodes gives
\* the list it encrypts; with no payload, or one that fails to decode, the
\* chapter's image list is empty.
C22_ImageResolution ==
    (ResolvedImages /\ AllUsable(last.direct)) =>
        /\ last.outcome = "item"
        /\ item.chapters.images =
              IF last.direct # NoImages THEN last.direct
              ELSE IF last.on_page = "ok" THEN last.plain
              ELSE NoImages

\* the same without the payloads whose failure parse_protector_image lets out
C22_ImageResolutionOfCaughtFailures ==
    (ResolvedImages /\ AllUsable(last.direct)
        /\ (last.direct = NoImages =>
               last.on_page \notin {"outer_not_object", "wrong_salt_length",
                                    "plain_not_json", "plain_not_string",
                                    "inner_not_json"})) =>
        /\ last.outcome = "item"
        /\ item.chapters.images =
              IF last.direct # NoImages THEN last.direct
              ELSE IF last.on_page = "ok" THEN last.plain
              ELSE NoImages

\* a page with images of its own and a payload that would not decode
C22_DirectImagesShadowPayload ==
    /\ ResolvedImages
    /\ last.direct # NoImages
    /\ last.on_page = "plain_not_json"
    /\ item.chapters.images = last.direct


-----------------------------------------------------------------------------
(* C23: a page without images                                              *)

\* no img element of the page gave a URL, and the page has no payload
NoImageOnPage ==
    /\ \A i \in 1..Len(last.direct) : last.direct[i] = NoUrl
    /\ last.on_page = "absent"

\* C23: a chapter page on which no image can be extracted (no img element
\* with a usable attribute, no protected payload) yields a chapter record with
\* an empty image list, and the crawl goes on to the next page.
C23_NoImageGivesEmptyRecord ==
    (ResolvedImages /\ NoImageOnPage) =>
        /\ last.outcome = "item"
        /\ item.has
        /\ item.chapters.images = NoImages
        /\ request = FollowNext(last.next)

\* the same for a page without any img element
C23_NoElementGivesEmptyRecord ==
    (ResolvedImages /\ last.direct = NoImages /\ last.on_page = "absent") =>
        /\ last.outcome = "item"
        /\ item.has
        /\ item.chapters.images = NoImages
        /\ request = FollowNext(last.next)


-----------------------------------------------------------------------------
(* C24: optional detail fields                                             *)

\* the home page has just been read
ReadHomePage == last.callback = "get_details_and_retry" /\ last.outcome = "retry"

\* the crawl read a home page and came to its end with the feed enabled
EndedWithDetails ==
    /\ pc \in {"closed", "finished"}
    /\ json_enabled
    /\ Len(scraped) >= 1
    /\ scraped[1].details.set

\* C24: each detail field is optional on its own.  A field the home page
\* gives nothing for is null in the details and the others are kept as
\* found; whichever field is null, the chapter records of the crawl are
\* accepted by the pipeline and written with those details.
C24_DetailFieldsAreOptional ==
    /\ ReadHomePage =>
          /\ request.details_item.manganame = last.home_name
          /\ request.details_item.cover = last.home_cover
    /\ EndedWithDetails =>
          /\ WroteFeed
          /\ WrittenFeed.details = scraped[1].details
          /\ \A i \in 1..Len(scraped) :
                scraped[i].chapters.title \in TitlesOf(WrittenFeed.chapters)

\* the same when a series name was found or a file name was given
C24_OptionalWhenNamedOrFileGiven ==
    /\ ReadHomePage =>
          /\ request.details_item.manganame = last.home_name
          /\ request.details_item.cover = last.home_cover
    /\ (EndedWithDetails
           /\ (scraped[1].details.manganame # None \/ file_name = KnownFile)) =>
          /\ WroteFeed
          /\ WrittenFeed.details = scraped[1].details
          /\ \A i \in 1..Len(scraped) :
                scraped[i].chapters.title \in TitlesOf(WrittenFeed.chapters)

\* a home page without cover: the name is kept and the feed is written
C24_CoverlessFeedWritten ==
    /\ EndedWithDetails
    /\ WroteFeed
    /\ WrittenFeed.details.cover = None
    /\ WrittenFeed.details.manganame # None

\* a home page without name, with a file name given: the cover is kept
C24_NamelessFeedWritten ==
    /\ EndedWithDetails
    /\ WroteFeed
    /\ WrittenFeed.details.cover = Cover
    /\ WrittenFeed.details.manganame = None


-----------------------------------------------------------------------------
(* C25: decrypt round trip                                                 *)

\* parse has just decoded the protected payload of a chapter page
DecodedPayload ==
    /\ last.callback = "parse"
    /\ last.outcome \in {"item", "raised"}
    /\ last.password # None

\* C25: for any password, 8-byte salt and list of URLs, the payload made by
\* encrypting the doubly JSON-encoded list under the key and IV of that
\* password and salt, laid out as marker, salt, ciphertext, decodes to the
\* same URLs in the same order.
C25_DecryptRoundTrip ==
    DecodedPayload =>
        /\ last.outcome = "item"
        /\ item.chapters.images = last.plain

\* the same for the passwords that are not the empty string
C25_RoundTripWithPassword ==
    (DecodedPayload /\ last.password # <<>>) =>
        /\ last.outcome = "item"
        /\ item.chapters.images = last.plain

\* two URLs have come back in their order
C25_TwoUrlsDecoded ==
    /\ DecodedPayload
    /\ last.password # <<>>
    /\ last.plain = <<"b", "a">>
    /\ item.chapters.images = <<"b", "a">>


-----------------------------------------------------------------------------
(* C26: termination                                                        *)

\* the crawl is over: the engine has closed the spider
Done == pc \in {"closed", "finished"}

\* C26: when every fetch returns a page and the chain of next-page URLs is
\* finite, a crawl that has been started eventually reaches Done, and once
\* Done it issues no further fetch and produces no further record.
C26_CrawlTerminates ==
    /\ (pc = "opened") ~> Done
    /\ [][Done => /\ Done'
                  /\ request' = NoRequest
                  /\ item' = NoItem
                  /\ homeRequests' = homeRequests
                  /\ scraped' = scraped]_vars

\* a crawl that took the detour and walked the whole chain is Done
C26_Witness ==
    /\ Done
    /\ homeRequests = 1
    /\ Len(scraped) = MaxPages


-----------------------------------------------------------------------------
(* C27: details before records                                             *)

\* the request for the home page is scheduled and not yet answered
ResolvingDetails == request.callback = "get_details_and_retry"

\* a step in which a callback yields a record
YieldsRecord == Len(scraped') = Len(scraped) + 1

\* C27: while the home page is being resolved no record has been emitted; the
\* home page's response schedules the original page again, with the details
\* it found; the first record comes from that page and carries them; no later
\* record carries details; and the buffer's details are set by the first
\* record only.
C27_DetailsBeforeRecords ==
    /\ [](ResolvingDetails => (scraped = <<>> /\ ~item.has))
    /\ []((homeRequests = 1 /\ scraped # <<>>) => scraped[1].details.set)
    /\ [](\A i \in 1..Len(scraped) : scraped[i].details.set => i = 1)
    /\ [][ResolvingDetails =>
             (request' # NoRequest =>
                 /\ request' = [url |-> request.retry, callback |-> "parse",
                                retry |-> None,
                                details_item |->
                                    MangaDetails(last'.home_name, last'.home_cover)]
                 /\ last'.outcome = "retry")]_vars
    /\ [][(YieldsRecord /\ request.details_item.set) =>
             /\ Len(scraped') = 1
             /\ scraped'[1].details = request.details_item
             /\ scraped'[1].chapters.document_location = request.url]_vars
    /\ [][(pc = "crawling" /\ pc' = "crawling" /\ data'.details # data.details) =>
             (item = scraped[1] /\ item.details.set)]_vars

\* the second record of a crawl that took the detour has been stored
C27_Witness ==
    /\ homeRequests = 1
    /\ Len(scraped) = 2
    /\ scraped[1].details.set
    /\ ~scraped[2].details.set
    /\ Len(data.chapters) = 2
    /\ data.details = scraped[1].details


-----------------------------------------------------------------------------
(* C28: one record per chapter page                                        *)

\* a step in which parse handles a chapter page of the pagination
ParsesChapterPage ==
    /\ request.callback = "parse"
    /\ last' # last
    /\ last'.callback = "parse"
    /\ last'.outcome \in {"item", "raised"}

\* a step in which parse leaves the requested page for the home page, and one
\* in which the home page is handled
LeavesForHomePage ==
    request.callback = "parse" /\ last' # last /\ last'.outcome = "detour"
HandlesHomePage ==
    request.callback = "get_details_and_retry" /\ last' # last
        /\ last'.outcome = "retry"

\* the payloads whose failure is let out of parse (C7)
EscapingPayloads ==
    {"outer_not_object", "wrong_salt_length", "plain_not_json", "plain_not_string",
     "inner_not_json"}

\* C28: every chapter page reached in the pagination yields exactly one
\* record, located at that page's URL; the first visit of the requested page
\* that leaves for the home page yields none, and neither does the home page.
C28_OneRecordPerChapterPage ==
    /\ [][ParsesChapterPage =>
             /\ scraped' = Append(scraped, item')
             /\ item'.has
             /\ item'.chapters.document_location = request.url]_vars
    /\ [][(LeavesForHomePage \/ HandlesHomePage) =>
             (scraped' = scraped /\ item' = item /\ ~item.has)]_vars

\* the same for the pages whose images resolve without an exception
C28_OneRecordPerResolvedPage ==
    /\ [][(ParsesChapterPage
             /\ (last'.direct = NoImages => last'.on_page \notin EscapingPayloads)) =>
             /\ scraped' = Append(scraped, item')
             /\ item'.has
             /\ item'.chapters.document_location = request.url]_vars
    /\ [][(LeavesForHomePage \/ HandlesHomePage) =>
             (scraped' = scraped /\ item' = item /\ ~item.has)]_vars


-----------------------------------------------------------------------------
(* C29: stability of the merge                                             *)

Min(S) == CHOOSE x \in S : \A y \in S : x <= y

\* where a title first occurs in the list the merge is applied to
FirstOccurrence(chs, t) == Min(Positions(chs, t))

\* C29: chapters whose titles contain no digit, and chapters with distinct
\* titles and the same number, are written in the order in which their titles
\* first occur in the merged list.
C29_TiesKeepFirstOccurrenceOrder ==
    WroteFeed =>
        \A i, j \in 1..Len(WrittenFeed.chapters) :
            (i < j /\ AsciiKey(WrittenFeed.chapters[i]) = AsciiKey(WrittenFeed.chapters[j]))
                => FirstOccurrence(ScrapedChapters, WrittenFeed.chapters[i].title)
                     < FirstOccurrence(ScrapedChapters, WrittenFeed.chapters[j].title)

\* the same among the titles whose only digits are ASCII
C29_TiesAmongAsciiTitles ==
    WroteFeed =>
        \A i, j \in 1..Len(WrittenFeed.chapters) :
            (i < j /\ AsciiKey(WrittenFeed.chapters[i]) = AsciiKey(WrittenFeed.chapters[j])
                   /\ OnlyAsciiDigits(WrittenFeed.chapters[i])
                   /\ OnlyAsciiDigits(WrittenFeed.chapters[j]))
                => FirstOccurrence(ScrapedChapters, WrittenFeed.chapters[i].title)
                     < FirstOccurrence(ScrapedChapters, WrittenFeed.chapters[j].title)

\* two titles of the same number and a repeated title have been written
C29_TieWritten ==
    /\ WroteFeed
    /\ TitlesOf(ScrapedChapters) = {<<"c", "2", "x", "1">>, <<"c", "2">>}
    /\ Len(ScrapedChapters) = 3
    /\ ScrapedChapters[1].title = <<"c", "2", "x", "1">>
    /\ ScrapedChapters[3].title = <<"c", "2", "x", "1">>


-----------------------------------------------------------------------------
(* C30: the URL of an image element                                        *)

\* the order of preference among the attributes
PreferenceOrder == <<"data-lazy-src", "data-src", "srcset", "data-cfsrc", "src">>

NonEmpty(value) == value # None /\ Len(value) > 0

\* the cover of the home page has been taken from an element
TookCoverFrom(element) ==
    /\ last.callback = "get_details_and_retry"
    /\ last.element = element

\* token is what stands in value before its first space
IsFirstToken(token, value) ==
    /\ \A k \in 1..Len(token) : token[k] # " "
    /\ \/ token = value
       \/ /\ Len(value) > Len(token)
          /\ SubSeq(value, 1, Len(token) + 1) = token \o <<" ">>

\* the first attribute of the order that is not empty, 0 when there is none
Chosen(element) ==
    LET filled == {i \in 1..Len(PreferenceOrder) :
                       NonEmpty(element.attrib[PreferenceOrder[i]])}
    IN  IF ~element.present \/ filled = {} THEN 0 ELSE Min(filled)

C30_NoAttributeGivesNull ==
    /\ last.callback = "get_details_and_retry"
    /\ last.element.present
    /\ Chosen(last.element) = 0
    /\ last.home_cover = None

\* no element gave null
C30_NoElementGivesNull ==
    /\ TookCoverFrom(NoElement)
    /\ last.home_cover = None


-----------------------------------------------------------------------------
(* C31: key derivation                                                     *)

\* parse has derived the key and IV of a protected payload
DerivedKey ==
    /\ last.callback = "parse"
    /\ last.on_page = "ok"
    /\ Truthy(last.password)

\* the n-th digest of the chain: the hash of the digest before it, the bytes
\* of the password and the salt
RECURSIVE ChainDigest(_, _, _)
ChainDigest(n, password, salt) ==
    IF n = 0 THEN <<>>
    ELSE md5(ChainDigest(n - 1, password, salt) \o Utf8Encode(password) \o salt)

\* the first n digests, one after the other
RECURSIVE ChainedDigests(_, _, _)
ChainedDigests(n, password, salt) ==
    IF n = 0 THEN <<>>
    ELSE ChainedDigests(n - 1, password, salt) \o ChainDigest(n, password, salt)

\* the smallest number of digests that make 48 bytes
EnoughDigests(password, salt) ==
    Min({n \in 0..4 : Len(ChainedDigests(n, password, salt)) >= 48})

BytesOf(s) == {s[i] : i \in 1..Len(s)}

\* C31: the key and IV are bytes 0..31 and 32..47 of the chained digests
\* hash(previous digest, password bytes, salt), the first one with an empty
\* previous digest; they have 32 and 16 bytes, share none, and the loop makes
\* no more digests than 48 bytes need.
C31_KeyDerivation ==
    DerivedKey =>
        LET password == last.password
            salt == last.salt
            n == EnoughDigests(password, salt)
            chain == ChainedDigests(n, password, salt)
            loop == digest_loop(<<>>, <<>>, password, salt, 48, 0)
            derived == generate_key_and_iv(password, salt)
        IN  /\ loop.iterations = n
            /\ loop.d = chain
            /\ derived.key = SubSeq(chain, 1, 32)
            /\ derived.iv = SubSeq(chain, 33, 48)
            /\ Len(derived.key) = 32
            /\ Len(derived.iv) = 16
            /\ BytesOf(derived.key) \cap BytesOf(derived.iv) = {}

\* a key has been derived from a two-byte password in three iterations
C31_DerivedInThreeIterations ==
    /\ DerivedKey
    /\ last.password = <<"U+00E9">>
    /\ last.salt = <<"1", "2", "3", "4", "5", "6", "7", "8">>
    /\ digest_loop(<<>>, <<>>, last.password, last.salt, 48, 0).iterations = 3
    /\ last.outcome = "item"
    /\ item.chapters.images = <<"a", "b">>


-----------------------------------------------------------------------------
(* C32: persisted titles never shrink                                      *)

\* C32: over crawls that run one after the other with overwrite=false and
\* write their feed, every version of a feed file holds the titles of the
\* version before it: a title once persisted stays.
C32_PersistedTitlesNeverShrink ==
    [][\A f \in FileNames :
          disk[f].kind = "feed" =>
              /\ disk'[f].kind = "feed"
              /\ TitlesOf(disk[f].chapters) \subseteq TitlesOf(disk'[f].chapters)]_vars

\* the third crawl in a row has written a feed that keeps a title it did not
\* scrape itself
C32_Witness ==
    /\ runs = 3
    /\ WroteFeed /\ ~overwrite
    /\ ExistingFeed.kind = "feed"
    /\ TitlesOf(ExistingFeed.chapters) \ TitlesOf(ScrapedChapters) # {}
    /\ TitlesOf(ScrapedChapters) \ TitlesOf(ExistingFeed.chapters) # {}
    /\ TitlesOf(ExistingFeed.chapters) \subseteq TitlesOf(WrittenFeed.chapters)


-----------------------------------------------------------------------------
(* C33: a crawl without records                                            *)

\* the crawl closes without having yielded a chapter record, and the save, if
\* there is one, does not fail half way
ClosesWithoutRecords ==
    /\ pc = "crawling"
    /\ pc' = "closed"
    /\ scraped = <<>>
    /\ saved' \notin {"write_failed", "killed"}

\* the feed files keep their chapter set and their details over the step
FeedsKept ==
    \A f \in FileNames :
        disk[f].kind = "feed" =>
            /\ disk'[f].kind = "feed"
            /\ RecordsOf(disk'[f].chapters) = RecordsOf(disk[f].chapters)
            /\ disk'[f].details = disk[f].details

\* C33: a crawl that produces no chapter record leaves the chapter set and the
\* details of an existing feed at the output path unchanged, with
\* overwrite=true as with overwrite=false.
C33_EmptyCrawlKeepsFeed ==
    [][ClosesWithoutRecords => FeedsKept]_vars

\* the half of C33 the code keeps: overwrite=false
C33_EmptyCrawlKeepsFeedWithoutOverwrite ==
    [][(ClosesWithoutRecords /\ ~overwrite) => FeedsKept]_vars

\* a crawl with overwrite=false and no record has written the existing feed
\* back
C33_FeedWrittenBack ==
    /\ WroteFeed /\ ~overwrite
    /\ scraped = <<>>
    /\ ExistingFeed.kind = "feed"
    /\ ExistingFeed.chapters # <<>>
    /\ WrittenFeed = ExistingFeed


-----------------------------------------------------------------------------
(* C34: the derived file name                                              *)

\* no item before the one in the pipeline carried details
FirstDetailsInPipeline ==
    /\ item.has
    /\ item.details.set
    /\ \A i \in 1..(Len(scraped) - 1) : ~scraped[i].details.set

\* the feed was enabled without a file name, no details have reached the
\* pipeline, and the crawl closes
ClosesUnnamed ==
    /\ pc = "crawling"
    /\ pc' \in {"closed", "killed"}
    /\ json_enabled
    /\ ~Truthy(file_name)
    /\ ~ProducedDetails

\* C34: without a file name given, the name is derived only from the first
\* details that reach the pipeline; when none arrive, close_spider writes no
\* file: the chapters of the run are dropped and no file is modified.
C34_NameOnlyFromFirstDetails ==
    /\ [][(pc = "crawling" /\ file_name' # file_name) =>
              /\ ~Truthy(file_name)
              /\ FirstDetailsInPipeline
              /\ file_name' = GenerateFileName(item.details)]_vars
    /\ [][ClosesUnnamed => (disk' = disk /\ ~Truthy(file_name'))]_vars

\* a crawl without a file name and without details has closed with chapters
\* that are not in the existing feed, which is as it was
C34_ChaptersDropped ==
    /\ pc = "closed"
    /\ json_enabled
    /\ ~Truthy(file_name)
    /\ ~ProducedDetails
    /\ Len(scraped) = 2
    /\ \E f \in FileNames :
          /\ disk[f].kind = "feed"
          /\ TitlesOf(ScrapedChapters) \cap TitlesOf(disk[f].chapters) = {}

\* the name was derived from the details of the first item and the feed
\* written under it
C34_DerivedNameWritten ==
    /\ WroteFeed
    /\ final_file_path = None
    /\ Len(scraped) = 2
    /\ scraped[1].details.set
    /\ file_name = GenerateFileName(scraped[1].details)
    /\ pc = "closed"


-----------------------------------------------------------------------------
(* C35: the existing feed is folded in at most once                        *)

\* close_spider merges and saves
ClosesWithMerge ==
    /\ pc = "crawling"
    /\ pc' \in {"closed", "killed"}
    /\ saved' \in SaveOutcomes

\* the buffer close_spider ends with is not just the buffer it found,
\* deduplicated and sorted: the file has been folded in
FoldsAtEnd ==
    data' # [details |-> data.details,
             chapters |-> clean_and_sort_chapters(data.chapters)]

\* C35: in one run the existing feed is folded into the buffer at most once:
\* when it was loaded at crawl start it is not loaded again at crawl end, and
\* it is loaded at crawl end only with overwrite=false and no earlier load.
C35_FoldedAtMostOnce ==
    /\ [][(ClosesWithMerge /\ FoldsAtEnd) => (~overwrite /\ ~load)]_vars
    /\ [][(pc = "constructed" /\ load') => (~load /\ ~overwrite)]_vars
    /\ [][(load /\ pc \in {"opened", "crawling"}) => load']_vars

\* the feed was loaded at crawl start, the crawl scraped a title again, and
\* close_spider wrote the fresh record without loading the file again
C35_LoadedAtStartOnly ==
    /\ WroteFeed /\ ~overwrite /\ load
    /\ ExistingFeed.kind = "feed"
    /\ Len(scraped) > 0 /\ ~scraped[1].details.set
    /\ \E t \in TitlesOf(ExistingFeed.chapters) \cap TitlesOf(ScrapedChapters) :
          /\ LastWithTitle(ExistingFeed.chapters, t) # LastWithTitle(ScrapedChapters, t)
          /\ LastWithTitle(WrittenFeed.chapters, t) = LastWithTitle(ScrapedChapters, t)

\* the file name was derived during the crawl and the feed loaded at crawl end
C35_LoadedAtEndOnly ==
    /\ WroteFeed /\ ~overwrite /\ load
    /\ ExistingFeed.kind = "feed"
    /\ Len(scraped) > 0 /\ scraped[1].details.set
    /\ TitlesOf(ExistingFeed.chapters) \ TitlesOf(ScrapedChapters) # {}
    /\ TitlesOf(ExistingFeed.chapters) \subseteq TitlesOf(WrittenFeed.chapters)


-----------------------------------------------------------------------------
(* C36: JSON output goes through the merge pipeline                        *)

Json == <<"j", "s", "o", "n">>

\* SManga.start has set up a crawl whose output format is JSON
JsonCrawl ==
    /\ pc \in {"constructed", "opened", "crawling", "closed", "finished"}
    /\ config.raised = "none"
    /\ config.spider_name # None
    /\ validate_file_format(config.file_name).value = Json

\* the crawl is over and had a file name, given or derived
NamedCrawlEnded ==
    /\ pc \in {"closed", "finished"}
    /\ Len(scraped) > 0
    /\ Truthy(config.file_name) \/ ProducedDetails

\* the records of the crawl are in the feed file, deduplicated and sorted
MergedFeedWritten ==
    /\ WroteFeed
    /\ TitlesOf(ScrapedChapters) \subseteq TitlesOf(WrittenFeed.chapters)
    /\ NoDuplicateTitles(WrittenFeed.chapters)
    /\ AscendingByNumber(WrittenFeed.chapters)

\* C36: whenever the output format is JSON the merge pipeline is enabled and
\* the written file is deduplicated and sorted, with a file name given by the
\* caller as with one derived from the series name.
C36_JsonGoesThroughMerge ==
    JsonCrawl =>
        /\ json_enabled
        /\ NamedCrawlEnded => MergedFeedWritten

\* the half of C36 the code keeps: no file name was given
C36_JsonWithoutNameGoesThroughMerge ==
    (JsonCrawl /\ ~Truthy(config.file_name)) =>
        /\ json_enabled
        /\ NamedCrawlEnded => MergedFeedWritten

\* a crawl without a given file name has written its merged feed
C36_DerivedNameMerged ==
    /\ JsonCrawl
    /\ ~Truthy(config.file_name)
    /\ NamedCrawlEnded
    /\ MergedFeedWritten
    /\ Len(scraped) = 2


-----------------------------------------------------------------------------
(* C37: the bookmark store keeps its key unique                            *)

\* C37: from a store without two entries of the same (site, name), after any
\* calls of add_or_update_entry, update_entry, delete_entry and restore_entry
\* the store holds no two entries of the same (site, name).
C37_KeyStaysUnique ==
    /\ UniqueSeries(last_chapters)
    /\ UniqueSeries(browser.list.main)

\* the calls that keep the key unique: all but update_entry
C37_KeyStaysUniqueWithoutUpdate ==
    [][(UniqueSeries(last_chapters) /\ browser'.op # "update_entry")
          => UniqueSeries(last_chapters')]_vars

\* an entry has been restored over a store that holds two series
C37_RestoredIntoStore ==
    /\ browser.op = "restore_entry"
    /\ Len(last_chapters) = 2
    /\ UniqueSeries(last_chapters)
    /\ \E i \in 1..2 : last_chapters[i] = browser.arg
    /\ browser.was = "delete_entry"


-----------------------------------------------------------------------------
(* C38: the two pairs of managers of the browser                           *)

EntriesOf(entries) == {entries[i] : i \in 1..Len(entries)}

\* an entry of the series of this one is among the entries
SeriesIn(entries, entry) ==
    \E i \in 1..Len(entries) : SameSeries(entry, entries[i])

\* what the call just made has to leave in the two files, given what they held
FilesAfterCall ==
    LET entry == browser'.arg
        op == browser'.op
        main == EntriesOf(last_chapters)
        trash == EntriesOf(browser.trash_file)
        others(entries) == OtherSeries(entries, entry)
    IN  CASE op = "delete_entry" ->
                /\ EntriesOf(last_chapters') = others(main)
                /\ EntriesOf(browser'.trash_file) = others(trash) \cup {entry}
          [] op = "restore_entry" ->
                /\ EntriesOf(last_chapters') = others(main) \cup {entry}
                /\ EntriesOf(browser'.trash_file) = others(trash)
          [] op = "delete_permanently" ->
                /\ EntriesOf(last_chapters') = main
                /\ EntriesOf(browser'.trash_file) = others(trash)
          [] OTHER -> TRUE

\* C38: after any deletions through the main list's managers and restorations
\* and purges through the trash list's managers, every entry deleted and not
\* yet restored or purged is in the trash file and not in the main index, and
\* no write of one manager discards what the other has persisted.
C38_FilesAgreeWithCalls ==
    /\ [](\A entry \in browser.gone :
            /\ entry \in EntriesOf(browser.trash_file)
            /\ ~SeriesIn(last_chapters, entry))
    /\ [][FilesAfterCall]_vars

\* the part of C38 that holds: a call on a manager whose data are those of
\* the files leaves the files as the call has to
C38_CurrentManagerWritesAgree ==
    [][(\/ /\ browser'.op = "delete_entry"
           /\ browser.list = Loaded(last_chapters, browser.trash_file)
        \/ /\ browser'.op \in {"restore_entry", "delete_permanently"}
           /\ browser.bin = Loaded(last_chapters, browser.trash_file))
          => FilesAfterCall]_vars

\* an entry deleted in the main list has been restored in the trash list
C38_DeletedThenRestored ==
    /\ browser.op = "restore_entry"
    /\ browser.was = "delete_entry"
    /\ browser.arg \in EntriesOf(last_chapters)


-----------------------------------------------------------------------------
(* C39: delete_entry then restore_entry on one pair of managers            *)

\* the entry of the last call was in the main index and its series was not
\* in the trash when delete_entry was called on it
DeletedFromIndex ==
    /\ browser.arg \in EntriesOf(browser.before.main)
    /\ ~SeriesIn(browser.before.trash, browser.arg)

\* delete_entry has returned
Deleted == browser.op = "delete_entry"

\* restore_entry has returned, called right after delete_entry of the entry
RestoredAfterDelete ==
    /\ browser.op = "restore_entry"
    /\ browser.was = "delete_entry"

\* between the calls the entry is in the trash and not in the main index
InTrashOnly ==
    /\ browser.arg \in EntriesOf(browser.trash_file)
    /\ ~SeriesIn(last_chapters, browser.arg)

\* the main index and the trash hold the sets of entries they held before
SetsAsBefore ==
    /\ EntriesOf(last_chapters) = EntriesOf(browser.before.main)
    /\ EntriesOf(browser.trash_file) = EntriesOf(browser.before.trash)

\* C39: on one pair of managers, delete_entry(x) then restore_entry(x) leaves
\* the main index with the set of entries it held before the delete, x with
\* its field values among them, and the trash with the set it held before,
\* without x; between the two calls x is in the trash and not in the index.
C39_DeleteRestoreRoundTrip ==
    /\ (Deleted /\ DeletedFromIndex) => InTrashOnly
    /\ (RestoredAfterDelete /\ DeletedFromIndex) =>
          (SetsAsBefore /\ browser.arg \in EntriesOf(last_chapters))

\* the part of C39 that holds: the round trip from an index that holds no
\* series twice
C39_RoundTripOfUniqueSeries ==
    /\ (Deleted /\ DeletedFromIndex) => InTrashOnly
    /\ (RestoredAfterDelete /\ DeletedFromIndex
          /\ UniqueSeries(browser.before.main)) =>
          (SetsAsBefore /\ browser.arg \in EntriesOf(last_chapters))

\* an entry of an index of two series, with another series in the trash, has
\* been deleted and restored
C39_RoundTripMade ==
    /\ RestoredAfterDelete
    /\ DeletedFromIndex
    /\ UniqueSeries(browser.before.main)
    /\ Len(browser.before.main) = 2
    /\ Len(browser.before.trash) = 1

=============================================================================
